---- MODULE Spec2Model ----
(***************************************************************************)
(* KC_Mirrors: wall-region cache, nearest-wall query and the per-frame     *)
(* floor / wall reflection update of a character sprite.                   *)
(*                                                                         *)
(* Numbers that the engine keeps as floating point are modelled exactly:   *)
(*   - a query coordinate is a record [i, frac]: i is its floor and frac   *)
(*     says whether a fractional part 0 < f < 1 follows;                   *)
(*   - world rows of a moving character are integers in units of          *)
(*     1/StepsPerTile tile.                                                *)
(***************************************************************************)
EXTENDS Integers, Sequences, FiniteSets, TLC

\* ---------------------------------------------------------------- bounds
MapWidth == 1
MapHeight == 2
MaxChanges == 2
HallHeight == 5
StepsPerTile == 2

\* ------------------------------------------------------- input domains
MapIds == {1, 2}
Columns == 0 .. (MapWidth - 1)
Rows == 0 .. (MapHeight - 1)
HallRows == 0 .. (HallHeight - 1)

\* plugin parameters "Wall Region IDs" and "Disable Region IDs"
wallRegions == {1}
noReflectRegions == {2}
\* parameter "Maximum Wall Distance": the default and a short one
MaxWallDistances == {2, 20}
\* KCDev.Mirrors.wallModes
perspective == 0
event == 1
\* $gameMap.tileHeight()
tileHeight == 48
\* the JavaScript value undefined, where a number is expected
Undefined == -1

\* a coordinate handed to the query: integer part and "has a fractional part"
Coords(S) == [i : S, frac : BOOLEAN]
Whole(n) == [i |-> n, frac |-> FALSE]
NoCoord == [i |-> -1, frac |-> FALSE]

VARIABLES
    mapData,                \* size and region id of every tile of every map (data files)
    mapId,                  \* $gameMap._mapId, 0 before the first map is set up
    reflectWallPositions,   \* KCDev.Mirrors.reflectWallPositions: x -> rows
    currMapId,              \* KCDev.Mirrors.currMapId
    changes,                \* map id changes since the last rebuild made by a query
    call,                   \* the last operation, its arguments and what it returned
    maxWallDistance,        \* KCDev.Mirrors.maxWallDistance
    gameMap,                \* the reflection fields of $gameMap
    character,              \* the Game_CharacterBase behind the sprite
    sprite,                 \* the Sprite_Character's own transform on this frame
    reflectionFloor,        \* sprite._reflectionFloor
    reflectionWall,         \* sprite._reflectionWall
    plugin,                 \* the plugin's parameters, what KCDev.Mirrors loaded of
                            \* them, and the Galv plugins found in Imported
    gameVariables,          \* $gameVariables: variable id -> value, written as a string
    actor,                  \* the reflection fields of the Game_Actor that leads the party
    characterSprites        \* Spriteset_Map._characterSprites: realY and wall reflection z

otherVars == <<plugin, gameVariables, actor, characterSprites>>
wallVars == <<mapData, mapId, reflectWallPositions, currMapId, changes, call>>
spriteVars == <<maxWallDistance, otherVars, gameMap, character, sprite, reflectionFloor, reflectionWall>>
vars == <<mapData, mapId, reflectWallPositions, currMapId, changes, call,
          maxWallDistance, otherVars, gameMap, character, sprite, reflectionFloor, reflectionWall>>

\* ------------------------------------------------------------ Game_Map
width == mapData[mapId].width
height == mapData[mapId].height
regionId(x, y) == mapData[mapId].region[x][y]

\* ------------------------------------------------- JavaScript Map, Array
EmptyMap == << >>
MapHas(m, c) == (~c.frac) /\ (c.i \in DOMAIN m)
MapGet(m, c) == m[c.i]
MapSet(m, k, v) == [x \in (DOMAIN m) \cup {k} |-> IF x = k THEN v ELSE m[x]]
\* integer w against a coordinate c = i + f, 0 <= f < 1
LessEq(w, c) == w <= c.i
GreaterEq(c, w) == c.i >= w
SetMin(S) == CHOOSE a \in S : \A b \in S : a <= b

\* ------------------------------------------------------ wall cache
RECURSIVE buildRows(_, _, _)
\* inner loop of buildCurrentMapCache: for (j = height - 1; j >= 0; j--)
buildRows(regionMap, i, j) ==
    IF j < 0 THEN regionMap
    ELSE LET yArr == IF i \in DOMAIN regionMap THEN regionMap[i] ELSE << >>
             pushed == IF regionId(i, j) \in wallRegions
                       THEN MapSet(regionMap, i, Append(yArr, j))
                       ELSE regionMap
         IN  buildRows(pushed, i, j - 1)

RECURSIVE buildColumns(_, _)
\* outer loop of buildCurrentMapCache: for (i = width - 1; i >= 0; i--)
buildColumns(regionMap, i) ==
    IF i < 0 THEN regionMap
    ELSE buildColumns(buildRows(regionMap, i, height - 1), i - 1)

buildCurrentMapCache(regionMap) == buildColumns(regionMap, width - 1)

\* reflectWallPositions.clear(); buildCurrentMapCache();
refreshedCache == buildCurrentMapCache(EmptyMap)

\* the search of getWallY in a given cache
searchWallY(regionMap, x, y) ==
    IF MapHas(regionMap, x)
    THEN LET col == MapGet(regionMap, x)
             hits == {k \in 1 .. Len(col) : LessEq(col[k], y)}
         IN  IF GreaterEq(y, col[Len(col)]) /\ hits # {}
             THEN col[SetMin(hits)]
             ELSE -1
    ELSE -1

\* getWallY: whether it rebuilds, the cache it searches, what it returns
\* variant: every query rebuilds the cache
alwaysRebuild == TRUE

needsRebuild == currMapId # mapId
cacheAfterCheck == IF needsRebuild THEN refreshedCache ELSE reflectWallPositions
getWallYValue(x, y) == searchWallY(cacheAfterCheck, x, y)

\* getWallY's effect on the cache and on currMapId
getWallYEffect ==
    /\ reflectWallPositions' = cacheAfterCheck
    /\ currMapId' = mapId
    /\ changes' = IF needsRebuild THEN 0 ELSE changes

\* --------------------------------------------------- reflection sprites
\* scale values are numerators over ScaleDen, y values numerators over YDen;
\* rotation counts quarter turns (Math.PI is 2)
ScaleDen == StepsPerTile * maxWallDistance
YDen == 20 * ScaleDen

\* a JavaScript number or undefined used as a condition
Truthy(o) == o # Undefined /\ o # 0

\* variant: the no-reflect regions are ignored
neverOnNoReflectRegion == FALSE

onNoReflectRegion == regionId(character.x, character.y) \in noReflectRegions

\* the opacity / transparency term shared by both visibility tests
\* variant: an opacity override of any value, 0 included, shows the reflection
anyOverrideAllows(o) == o # Undefined \/ ~character.transparent

opacityAllows(o) == (o = Undefined /\ ~character.transparent) \/ Truthy(o)

\* Game_CharacterBase.prototype.reflectName / reflectIndex: this._reflectIndex || -1
reflectName(c) == c.reflectName
reflectIndex(c) == IF c.reflectIndex = 0 THEN -1 ELSE c.reflectIndex

\* Sprite_Reflect.refreshGraphic
refreshGraphic(r) ==
    [r EXCEPT !.characterName = IF character.reflectName = ""
                                THEN character.characterName
                                ELSE character.reflectName,
              !.characterIndex = IF reflectIndex(character) < 0
                                 THEN character.characterIndex
                                 ELSE reflectIndex(character),
              !.tileId = 0]

\* Sprite_Character.prototype.updateReflectCommon
updateReflectCommon(r, s) ==
    [r EXCEPT !.x = s.x,
              !.scaleX = s.scaleX * ScaleDen,
              !.scaleY = s.scaleY * ScaleDen,
              !.rotation = s.rotation,
              !.pivotY = s.pivotY]

\* KCDev.Mirrors.handleReflectFrame: the tile fast path keeps the tile id
handleReflectFrame(r) ==
    IF character.tileId > 0 /\ character.characterName = r.characterName
    THEN [r EXCEPT !.tileId = character.tileId]
    ELSE r

\* r.visible of updateReflectFloor
floorVisible ==
    /\ gameMap.reflectFloor
    /\ character.reflectFloor
    /\ ~onNoReflectRegion
    /\ opacityAllows(character.reflectFloorOpacity)

\* variant: the floor reflection is shifted by the character's offsets only
updateReflectFloorCharacterOffset(r, s) ==
    IF ~floorVisible THEN [r EXCEPT !.visible = FALSE]
    ELSE LET o == character.reflectFloorOpacity
             c == updateReflectCommon([r EXCEPT !.visible = TRUE], s)
             lift == IF s.pivotY # 0 THEN s.patternHeight * s.scaleY ELSE 0
         IN  handleReflectFrame(
               [c EXCEPT !.opacity = IF o = Undefined THEN s.opacity ELSE o,
                         !.y = (s.y + lift) * YDen
                               + character.jumpHeight * 5 * (YDen \div 4)
                               + character.reflectFloorYOff * YDen,
                         !.rotation = s.rotation + 2,
                         !.scaleX = (0 - s.scaleX) * ScaleDen,
                         !.scaleY = s.scaleY * ScaleDen,
                         !.x = s.x + character.reflectFloorXOff])

\* variant: the floor reflection is turned over but not mirrored
updateReflectFloorNotMirrored(r, s) ==
    IF ~floorVisible THEN [r EXCEPT !.visible = FALSE]
    ELSE LET o == character.reflectFloorOpacity
             c == updateReflectCommon([r EXCEPT !.visible = TRUE], s)
             lift == IF s.pivotY # 0 THEN s.patternHeight * s.scaleY ELSE 0
         IN  handleReflectFrame(
               [c EXCEPT !.opacity = IF o = Undefined THEN s.opacity ELSE o,
                         !.y = (s.y + lift) * YDen
                               + character.jumpHeight * 5 * (YDen \div 4)
                               + (gameMap.reflectFloorYOff + character.reflectFloorYOff) * YDen,
                         !.rotation = s.rotation + 2,
                         !.scaleX = s.scaleX * ScaleDen,
                         !.scaleY = s.scaleY * ScaleDen,
                         !.x = s.x + gameMap.reflectFloorXOff + character.reflectFloorXOff])

\* Sprite_Character.prototype.updateReflectFloor
updateReflectFloor(r, s) ==
    IF ~floorVisible THEN [r EXCEPT !.visible = FALSE]
    ELSE LET o == character.reflectFloorOpacity
             c == updateReflectCommon([r EXCEPT !.visible = TRUE], s)
             lift == IF s.pivotY # 0 THEN s.patternHeight * s.scaleY ELSE 0
         IN  handleReflectFrame(
               [c EXCEPT !.opacity = IF o = Undefined THEN s.opacity ELSE o,
                         !.y = (s.y + lift) * YDen
                               + character.jumpHeight * 5 * (YDen \div 4)
                               + (gameMap.reflectFloorYOff + character.reflectFloorYOff) * YDen,
                         !.rotation = s.rotation + 2,
                         !.scaleX = (0 - s.scaleX) * ScaleDen,
                         !.scaleY = s.scaleY * ScaleDen,
                         !.x = s.x + gameMap.reflectFloorXOff + character.reflectFloorXOff])

\* the first r.visible of updateReflectWall: only then is the wall looked up
\* variant: the map's wall flag is not consulted
wallWantedByCharacter ==
    /\ character.reflectWall
    /\ ~onNoReflectRegion
    /\ opacityAllows(character.reflectWallOpacity)

wallWanted ==
    /\ gameMap.reflectWall
    /\ character.reflectWall
    /\ ~onNoReflectRegion
    /\ opacityAllows(character.reflectWallOpacity)

\* distToWall = char._realY - wallY, in steps
\* variant: the distance is taken from the tile row, not the on-screen row
tileDistToWall(wallY) == (character.y - wallY) * StepsPerTile

distToWall(wallY) == character.realY - wallY * StepsPerTile

\* let scale = 1 - (distToWall - 1) / maxWallDistance, clamped to 0..1
\* variant: the scale is not clamped
unclampedScale(dist) == ScaleDen - (dist - StepsPerTile)

perspectiveScale(dist) ==
    LET raw == ScaleDen - (dist - StepsPerTile)
    IN  IF raw > ScaleDen THEN ScaleDen ELSE IF raw < 0 THEN 0 ELSE raw

\* Sprite_Character.prototype.updateReflectWall, wallY being getWallY's answer
updateReflectWall(r, s, wallY) ==
    IF ~wallWanted THEN [r EXCEPT !.visible = FALSE]
    ELSE LET c == updateReflectCommon(r, s)
         IN  IF wallY < 0 THEN [c EXCEPT !.visible = FALSE]
             ELSE LET o == character.reflectWallOpacity
                      dist == distToWall(wallY)
                      sx == IF r.tileId # 0 THEN s.scaleX ELSE 0 - s.scaleX
                      scale == perspectiveScale(dist)
                      offX == gameMap.reflectWallXOff + character.reflectWallXOff
                      offY == gameMap.reflectWallYOff + character.reflectWallYOff
                  IN  handleReflectFrame(
                        IF gameMap.reflectMode = perspective
                        THEN [c EXCEPT !.visible = TRUE,
                                       !.opacity = IF o = Undefined THEN s.opacity ELSE o,
                                       !.scaleX = sx * scale,
                                       !.scaleY = s.scaleY * scale,
                                       !.y = s.y * YDen
                                             - (tileHeight + 1) * dist * (YDen \div StepsPerTile)
                                             - character.jumpHeight * scale * 2
                                             - s.pivotY * (ScaleDen - scale) * 20
                                             + offY * YDen,
                                       !.x = s.x + offX]
                        ELSE [c EXCEPT !.visible = TRUE,
                                       !.opacity = IF o = Undefined THEN s.opacity ELSE o,
                                       !.scaleX = sx * ScaleDen,
                                       !.scaleY = s.scaleY * ScaleDen,
                                       !.y = (s.y + tileHeight - character.jumpHeight + offY) * YDen
                                             - tileHeight * dist * 2 * (YDen \div StepsPerTile),
                                       !.x = s.x + offX])

\* ------------------------------------------------------------ map notes
\* KCDev.Mirrors.wallModes[val], and KCDev.Mirrors.getWallReflectMode
wallModes(val) ==
    CASE val = "perspective" -> perspective
      [] val = "event" -> event
      [] OTHER -> Undefined

getWallReflectMode ==
    IF plugin.wallReflectVar # 0
       /\ wallModes(gameVariables[plugin.wallReflectVar]) # Undefined
    THEN wallModes(gameVariables[plugin.wallReflectVar])
    ELSE wallModes(plugin.wallReflectType)

\* KCDev.Mirrors.setupMapReflectOptions: the map's reflection fields from its notes
setupMapReflectOptions(meta) ==
    [reflectWall |-> meta.Reflect_Type \in {"WALL", "ALL", "undefined"},
     reflectFloor |-> meta.Reflect_Type \in {"FLOOR", "ALL", "undefined"},
     reflectFloorXOff |-> meta.Reflect_Floor_Offsets[1],
     reflectFloorYOff |-> meta.Reflect_Floor_Offsets[2],
     reflectWallXOff |-> meta.Reflect_Wall_Offsets[1],
     reflectWallYOff |-> meta.Reflect_Wall_Offsets[2],
     reflectMode |-> CASE meta.Reflect_Mode = "PERSPECTIVE" -> perspective
                       [] meta.Reflect_Mode = "EVENT" -> event
                       [] OTHER -> getWallReflectMode]

\* ------------------------------------------------------------ actions
NoCall == [op |-> "none", x |-> NoCoord, y |-> NoCoord, queried |-> FALSE,
           ret |-> -1, rebuilt |-> FALSE, changes |-> 0]

Bump(n) == IF n < MaxChanges THEN n + 1 ELSE n

\* Game_Map.prototype.setup(mapId), then Game_Player locate(x, y): the player
\* enters map m at tile (x, y)
Game_Map_setup(m, x, y) ==
    /\ mapId' = m
    /\ changes' = IF m # mapId THEN Bump(changes) ELSE changes
    /\ gameMap' = setupMapReflectOptions(mapData[m].meta)
    /\ character' = [character EXCEPT !.x = x, !.y = y, !.realY = y * StepsPerTile]
    /\ call' = [NoCall EXCEPT !.op = "setup"]
    /\ UNCHANGED <<mapData, reflectWallPositions, currMapId, maxWallDistance, otherVars,
                   sprite, reflectionFloor, reflectionWall>>

\* plugin command refreshReflectMap / script call refreshReflectWallCache()
refreshReflectWallCache ==
    /\ mapId \in MapIds
    /\ reflectWallPositions' = refreshedCache
    /\ call' = [NoCall EXCEPT !.op = "refresh"]
    /\ UNCHANGED <<mapData, mapId, currMapId, changes>>
    /\ UNCHANGED spriteVars

\* script call KCDev.Mirrors.getWallY(x, y)
getWallY(x, y) ==
    /\ mapId \in MapIds
    /\ getWallYEffect
    /\ call' = [op |-> "getWallY", x |-> x, y |-> y, queried |-> TRUE,
                ret |-> getWallYValue(x, y), rebuilt |-> needsRebuild, changes |-> changes]
    /\ UNCHANGED <<mapData, mapId>>
    /\ UNCHANGED spriteVars

\* Sprite_Character.prototype.updateOther -> updateReflectionSprite, the
\* sprite's own transform on this frame being s
updateOther(s) ==
    /\ mapId \in MapIds
    /\ sprite' = s
    /\ LET requested == character.reflectRefreshRequested
           f0 == IF requested THEN refreshGraphic(reflectionFloor) ELSE reflectionFloor
           w0 == IF requested THEN refreshGraphic(reflectionWall) ELSE reflectionWall
           cx == Whole(character.x)
           cy == Whole(character.y)
           wallY == getWallYValue(cx, cy)
       IN  /\ reflectionFloor' = updateReflectFloor(f0, s)
           /\ reflectionWall' = updateReflectWall(w0, s, wallY)
           /\ call' = [op |-> "updateOther", x |-> cx, y |-> cy, queried |-> wallWanted,
                       ret |-> IF wallWanted THEN wallY ELSE -1,
                       rebuilt |-> wallWanted /\ needsRebuild, changes |-> changes]
    /\ character' = [character EXCEPT !.reflectRefreshRequested = FALSE]
    /\ IF wallWanted THEN getWallYEffect
       ELSE UNCHANGED <<reflectWallPositions, currMapId, changes>>
    /\ UNCHANGED <<mapData, mapId, maxWallDistance, otherVars, gameMap>>

\* ------------------------------------------------------- initial states
NoNotes == [Reflect_Type |-> "undefined", Reflect_Mode |-> "undefined",
            Reflect_Floor_Offsets |-> <<0, 0>>, Reflect_Wall_Offsets |-> <<0, 0>>]

\* every map of MapWidth x MapHeight tiles over the region ids ids
Grids(ids) == [Columns -> [Rows -> ids]]
\* the maps whose columns are all alike
Corridors(ids) == {[x \in Columns |-> col] : col \in [Rows -> ids]}
MapOf(grid, meta) == [width |-> MapWidth, height |-> MapHeight, region |-> grid, meta |-> meta]
\* the note tags of an actor or an event that has none
NoCharacterNotes ==
    [Reflect_Type |-> "undefined", Reflect_Char |-> "", Reflect_Index |-> Undefined,
     Reflect_Floor_Opacity |-> Undefined, Reflect_Wall_Opacity |-> Undefined,
     Reflect_Floor_Offsets |-> <<0, 0>>, Reflect_Wall_Offsets |-> <<0, 0>>]

\* a hall of one column with a mirror on row w
Hall(w) == [width |-> 1, height |-> HallHeight,
            region |-> [x \in {0} |-> [y \in HallRows |-> IF y = w THEN 1 ELSE 0]],
            meta |-> NoNotes]
\* a map with a mirror along its top row, whose notes allow floor reflections only
FloorOnlyNotes == [NoNotes EXCEPT !.Reflect_Type = "FLOOR"]
MirrorRoom == MapOf([x \in Columns |-> [y \in Rows |-> IF y = 0 THEN 1 ELSE 0]], FloorOnlyNotes)

DefaultSprite == [x |-> 100, y |-> 200, scaleX |-> 1, scaleY |-> 1, rotation |-> 0,
                  opacity |-> 255, pivotY |-> 0, patternHeight |-> 48]

\* Game_CharacterBase.initMembers and the actor defaults
DefaultCharacter ==
    [x |-> 0, y |-> 0, realY |-> 0,
     reflectFloor |-> TRUE, reflectWall |-> TRUE,
     reflectFloorOpacity |-> Undefined, reflectWallOpacity |-> Undefined,
     transparent |-> FALSE, jumpHeight |-> 0,
     reflectFloorXOff |-> 0, reflectFloorYOff |-> 0,
     reflectWallXOff |-> 0, reflectWallYOff |-> 0,
     tileId |-> 0, characterName |-> "Actor1", characterIndex |-> 3,
     direction |-> 2, cframes |-> 3, diagDir |-> 0, reflectName |-> "",
     reflectRefreshRequested |-> TRUE,
     reflectIndex |-> -1, kind |-> "actor", id |-> 1, notes |-> NoCharacterNotes]

\* Sprite_Reflect.initMembers / createReflectionSprites
NewReflection == [visible |-> FALSE, x |-> 0, y |-> 0, scaleX |-> 0, scaleY |-> 0,
                  rotation |-> 0, opacity |-> 255, pivotY |-> 0, tileId |-> 0,
                  characterName |-> "", characterIndex |-> 0]

\* the plugin parameters at their defaults, no game variable set, the leading
\* actor as Game_Actor.prototype.setup leaves it, no spriteset yet
VariableIds == {5}
DefaultParameters == [wallReflectType |-> "perspective", wallReflectVar |-> 0,
                      attemptFixZFight |-> FALSE, zValue |-> -1]

\* the loading of the plugin parameters, the same for PluginManagerEx and for
\* PluginManager.parameters: wallReflectVar is not among the parameters read
\* and keeps the value 0 it is declared with
loadParameters(parameters) ==
    [parameters |-> parameters,
     wallReflectType |-> IF parameters.wallReflectType \in {"perspective", "event"}
                         THEN parameters.wallReflectType ELSE "perspective",
     wallReflectVar |-> 0,
     useZFightFix |-> parameters.attemptFixZFight,
     zValue |-> parameters.zValue,
     imported |-> {}]

DefaultPlugin == loadParameters(DefaultParameters)
InitOther ==
    /\ plugin = DefaultPlugin
    /\ gameVariables = [v \in VariableIds |-> "0"]
    /\ actor = DefaultCharacter
    /\ characterSprites = <<>>

InitCache ==
    /\ reflectWallPositions = EmptyMap
    /\ currMapId = -1
    /\ changes = 0
    /\ call = NoCall

\* the wall cache alone: any first map, a corridor as second map, no map entered yet
Init ==
    /\ InitOther
    /\ mapData \in {[m \in MapIds |-> MapOf(IF m = 1 THEN a ELSE b, NoNotes)] :
                        a \in Grids({0, 1}), b \in Corridors({0, 1})}
    /\ mapId = 0
    /\ InitCache
    /\ maxWallDistance = 20
    /\ gameMap = setupMapReflectOptions(NoNotes)
    /\ character = DefaultCharacter
    /\ sprite = DefaultSprite
    /\ reflectionFloor = NewReflection
    /\ reflectionWall = NewReflection

Next ==
    \/ \E m \in MapIds : Game_Map_setup(m, character.x, character.y)
    \/ refreshReflectWallCache
    \/ \E x \in Coords(Columns), y \in Coords(Rows) : getWallY(x, y)

Spec == Init /\ [][Next]_vars

\* visibility: the player stands on map 1, a corridor over the region ids 0, 1, 2;
\* map and character flags, opacity overrides and transparency are any
OpacityOverrides == {Undefined, 0, 255}

InitVisible ==
    /\ InitOther
    /\ mapData \in {[m \in MapIds |-> IF m = 1 THEN MapOf(a, NoNotes) ELSE MirrorRoom] :
                        a \in Corridors({0, 1, 2})}
    /\ mapId = 1
    /\ InitCache
    /\ maxWallDistance = 20
    /\ \E f \in BOOLEAN, w \in BOOLEAN :
          gameMap = [setupMapReflectOptions(NoNotes) EXCEPT !.reflectFloor = f, !.reflectWall = w]
    /\ \E x \in Columns, y \in Rows, f \in BOOLEAN, w \in BOOLEAN, t \in BOOLEAN,
          fo \in OpacityOverrides, wo \in OpacityOverrides :
          character = [DefaultCharacter EXCEPT !.x = x, !.y = y, !.realY = y * StepsPerTile,
                                               !.reflectFloor = f, !.reflectWall = w,
                                               !.reflectFloorOpacity = fo,
                                               !.reflectWallOpacity = wo,
                                               !.transparent = t]
    /\ sprite = DefaultSprite
    /\ reflectionFloor = NewReflection
    /\ reflectionWall = NewReflection

NextVisible ==
    \/ updateOther(DefaultSprite)
    \/ \E m \in MapIds : Game_Map_setup(m, character.x, character.y)
    \/ refreshReflectWallCache

SpecVisible == InitVisible /\ [][NextVisible]_vars

\* transform: the player walks a hall whose mirror is on row 0 or 1, all
\* reflections allowed; distance, mode, jump, offsets and the sprite's own
\* transform are any
Sprites == {[DefaultSprite EXCEPT !.scaleX = sx, !.scaleY = sy, !.pivotY = p] :
                sx \in {1, 2}, sy \in {1, 3}, p \in {0, 48}}
RealYs(y) == {r \in 0 .. (HallHeight - 1) * StepsPerTile :
                 r > (y - 1) * StepsPerTile /\ r < (y + 1) * StepsPerTile}

InitTransform ==
    /\ InitOther
    /\ \E w \in {0, 1} : mapData = [m \in MapIds |-> Hall(w)]
    /\ mapId = 1
    /\ InitCache
    /\ maxWallDistance \in MaxWallDistances
    /\ \E mode \in {perspective, event}, off \in {0, 1} :
          gameMap = [setupMapReflectOptions(NoNotes) EXCEPT !.reflectMode = mode,
                                                            !.reflectWallYOff = off]
    /\ \E y \in HallRows, j \in {0, 10}, o \in {Undefined, 128}, off \in {0, -4}, t \in {0, 5} :
       \E r \in RealYs(y) :
          character = [DefaultCharacter EXCEPT !.y = y, !.realY = r, !.jumpHeight = j,
                                               !.reflectWallOpacity = o,
                                               !.reflectWallYOff = off,
                                               !.tileId = t,
                                               !.characterName = IF t > 0 THEN "" ELSE "Actor1"]
    /\ sprite = DefaultSprite
    /\ reflectionFloor = NewReflection
    /\ reflectionWall = NewReflection

NextTransform == \E s \in Sprites : updateOther(s)

SpecTransform == InitTransform /\ [][NextTransform]_vars

\* ------------------------------------------------------------ offsets
\* Game_CharacterBase.prototype.setReflect{Floor,Wall}{X,Y}Offset
setReflectFloorXOffset(c, x) == [c EXCEPT !.reflectFloorXOff = x]
setReflectFloorYOffset(c, y) == [c EXCEPT !.reflectFloorYOff = y]
setReflectWallXOffset(c, x) == [c EXCEPT !.reflectWallXOff = x]
setReflectWallYOffset(c, y) == [c EXCEPT !.reflectWallYOff = y]

\* Game_Map.prototype.setReflect{Floor,Wall}{X,Y}Offset
Game_Map_setReflectFloorXOffset(g, x) == [g EXCEPT !.reflectFloorXOff = x]
Game_Map_setReflectFloorYOffset(g, y) == [g EXCEPT !.reflectFloorYOff = y]
Game_Map_setReflectWallXOffset(g, x) == [g EXCEPT !.reflectWallXOff = x]
Game_Map_setReflectWallYOffset(g, y) == [g EXCEPT !.reflectWallYOff = y]

CharacterXOffsets == {-4, 0}
CharacterYOffsets == {0, 6}
MapOffsets == {0, 1}

\* a script call to one of the character's offset setters
setCharacterOffset ==
    /\ \E x \in CharacterXOffsets, y \in CharacterYOffsets :
          character' \in {setReflectFloorXOffset(character, x),
                          setReflectFloorYOffset(character, y),
                          setReflectWallXOffset(character, x),
                          setReflectWallYOffset(character, y)}
    /\ call' = [NoCall EXCEPT !.op = "setCharacterOffset"]
    /\ UNCHANGED <<mapData, mapId, reflectWallPositions, currMapId, changes,
                   maxWallDistance, otherVars, gameMap, sprite, reflectionFloor, reflectionWall>>

\* a script call to one of the map's offset setters
setMapOffset ==
    /\ \E v \in MapOffsets :
          gameMap' \in {Game_Map_setReflectFloorXOffset(gameMap, v),
                        Game_Map_setReflectFloorYOffset(gameMap, v),
                        Game_Map_setReflectWallXOffset(gameMap, v),
                        Game_Map_setReflectWallYOffset(gameMap, v)}
    /\ call' = [NoCall EXCEPT !.op = "setMapOffset"]
    /\ UNCHANGED <<mapData, mapId, reflectWallPositions, currMapId, changes,
                   maxWallDistance, otherVars, character, sprite, reflectionFloor, reflectionWall>>

\* the player stands one tile below the mirror of a hall, everything allowed
InitOffsets ==
    /\ InitOther
    /\ mapData = [m \in MapIds |-> Hall(0)]
    /\ mapId = 1
    /\ InitCache
    /\ maxWallDistance = 20
    /\ \E mode \in {perspective, event} :
          gameMap = [setupMapReflectOptions(NoNotes) EXCEPT !.reflectMode = mode]
    /\ character = [DefaultCharacter EXCEPT !.y = 1, !.realY = StepsPerTile]
    /\ sprite = DefaultSprite
    /\ reflectionFloor = NewReflection
    /\ reflectionWall = NewReflection

NextOffsets ==
    \/ setCharacterOffset
    \/ setMapOffset
    \/ updateOther(DefaultSprite)

SpecOffsets == InitOffsets /\ [][NextOffsets]_vars


\* ------------------------------------------------------------ settings
\* KCDev.Mirrors.actorDefault / eventDefault
actorDefault == [reflectFloor |-> TRUE, reflectWall |-> TRUE]
eventDefault == [reflectFloor |-> FALSE, reflectWall |-> FALSE]

\* Game_CharacterBase.prototype.reflectFloorToggle / reflectWallToggle with an argument
reflectFloorToggle(c, reflect) == [c EXCEPT !.reflectFloor = reflect]
reflectWallToggle(c, reflect) == [c EXCEPT !.reflectWall = reflect]

\* Game_CharacterBase.prototype.setReflectFloorOpacity / setReflectWallOpacity
setReflectFloorOpacity(c, opacity) == [c EXCEPT !.reflectFloorOpacity = opacity]
setReflectWallOpacity(c, opacity) == [c EXCEPT !.reflectWallOpacity = opacity]

\* Game_CharacterBase.prototype.setReflectImage; the index argument defaults
\* to -1 when it is undefined. Game_Actor's version requests no refresh.
setReflectImage(c, filename, index) ==
    [c EXCEPT !.reflectName = filename,
              !.reflectIndex = IF index = Undefined THEN -1 ELSE index,
              !.reflectRefreshRequested = IF c.kind = "actor" THEN @ ELSE TRUE]

\* KCDev.Mirrors.parseMetaValues
parseMetaValues(reflectableObj, meta, defaults) ==
    LET type == meta.Reflect_Type
        floor == IF type \in {"FLOOR", "ALL"} THEN TRUE
                 ELSE IF type \in {"WALL", "NONE"} THEN FALSE
                 ELSE defaults.reflectFloor
        wall == IF type \in {"WALL", "ALL"} THEN TRUE
                ELSE IF type \in {"FLOOR", "NONE"} THEN FALSE
                ELSE defaults.reflectWall
        c1 == reflectWallToggle(reflectFloorToggle(reflectableObj, floor), wall)
        c2 == setReflectImage(c1, meta.Reflect_Char, meta.Reflect_Index)
        c3 == setReflectWallOpacity(setReflectFloorOpacity(c2, meta.Reflect_Floor_Opacity),
                                    meta.Reflect_Wall_Opacity)
        c4 == setReflectFloorYOffset(setReflectFloorXOffset(c3, meta.Reflect_Floor_Offsets[1]),
                                     meta.Reflect_Floor_Offsets[2])
    IN  setReflectWallYOffset(setReflectWallXOffset(c4, meta.Reflect_Wall_Offsets[1]),
                              meta.Reflect_Wall_Offsets[2])

\* Game_Map.prototype.setReflectFloor / setReflectWall / setReflectMode
Game_Map_setReflectFloor(g, reflectFloor) == [g EXCEPT !.reflectFloor = reflectFloor]
Game_Map_setReflectWall(g, reflectWall) == [g EXCEPT !.reflectWall = reflectWall]
Game_Map_setReflectMode(g, mode) == [g EXCEPT !.reflectMode = mode]

\* KCDev.Mirrors.overrideMapSettings on the map settings g of a map with notes meta
overrideMapSettingsValue(g, meta, floorEnabled, wallEnabled, mode) ==
    LET reflect == meta.Reflect_Type
        g1 == IF floorEnabled = "unchanged" THEN g
              ELSE Game_Map_setReflectFloor(g,
                     IF floorEnabled = "map notes"
                     THEN reflect \in {"FLOOR", "ALL", "undefined"}
                     ELSE floorEnabled = "allow")
        g2 == IF wallEnabled = "unchanged" THEN g1
              ELSE Game_Map_setReflectWall(g1,
                     IF wallEnabled = "map notes"
                     THEN reflect \in {"WALL", "ALL", "undefined"}
                     ELSE wallEnabled = "allow")
        m == IF mode = "map notes"
             THEN (CASE meta.Reflect_Mode = "PERSPECTIVE" -> "perspective"
                     [] meta.Reflect_Mode = "EVENT" -> "event"
                     [] OTHER -> "undefined")
             ELSE mode
    IN  IF mode = "unchanged" THEN g2
        ELSE Game_Map_setReflectMode(g2,
               CASE m = "perspective" -> perspective
                 [] m = "event" -> event
                 [] OTHER -> getWallReflectMode)

\* the MZ command Override Map Settings and the script call of the same name
overrideMapSettings(floorEnabled, wallEnabled, mode) ==
    /\ mapId \in MapIds
    /\ gameMap' = overrideMapSettingsValue(gameMap, mapData[mapId].meta,
                                           floorEnabled, wallEnabled, mode)
    /\ call' = [NoCall EXCEPT !.op = "overrideMapSettings"]
    /\ UNCHANGED <<mapData, mapId, reflectWallPositions, currMapId, changes,
                   maxWallDistance, otherVars, character, sprite, reflectionFloor, reflectionWall>>

\* Game_Map.prototype.refresh: a mode that is falsy, undefined or perspective
\* (0), has the map's notes parsed again, and the notes of every event that
\* has no reflection graphic of its own
Game_Map_refresh ==
    /\ mapId \in MapIds
    /\ IF gameMap.reflectMode = perspective
       THEN /\ gameMap' = setupMapReflectOptions(mapData[mapId].meta)
            /\ character' = IF character.kind = "event" /\ character.reflectName = ""
                            THEN parseMetaValues(character, character.notes, eventDefault)
                            ELSE character
       ELSE UNCHANGED <<gameMap, character>>
    /\ call' = [NoCall EXCEPT !.op = "refresh map"]
    /\ UNCHANGED <<mapData, mapId, reflectWallPositions, currMapId, changes,
                   maxWallDistance, otherVars, sprite, reflectionFloor, reflectionWall>>


\* map settings: the player stands below the mirror of map 1, whose notes are
\* absent or ask for wall reflections in event mode
EventWallNotes == [NoNotes EXCEPT !.Reflect_Type = "WALL", !.Reflect_Mode = "EVENT"]
EnabledArgs == {"unchanged", "allow", "disallow", "map notes"}
ModeArgs == {"unchanged", "perspective", "event", "map notes", "isometric"}

InitMapSettings ==
    /\ InitOther
    /\ \E n \in {NoNotes, EventWallNotes} :
          /\ mapData = [m \in MapIds |-> IF m = 1 THEN [MirrorRoom EXCEPT !.meta = n]
                                         ELSE MirrorRoom]
          /\ gameMap = setupMapReflectOptions(n)
    /\ mapId = 1
    /\ InitCache
    /\ maxWallDistance = 20
    /\ character = [DefaultCharacter EXCEPT !.y = MapHeight - 1,
                                            !.realY = (MapHeight - 1) * StepsPerTile]
    /\ sprite = DefaultSprite
    /\ reflectionFloor = NewReflection
    /\ reflectionWall = NewReflection

NextMapSettings ==
    \/ \E f \in EnabledArgs, w \in EnabledArgs, m \in ModeArgs : overrideMapSettings(f, w, m)
    \/ Game_Map_refresh
    \/ \E m \in MapIds : Game_Map_setup(m, character.x, character.y)
    \/ updateOther(DefaultSprite)

SpecMapSettings == InitMapSettings /\ [][NextMapSettings]_vars


\* ------------------------------------------------------------ change commands
\* a text argument of an MZ command left blank
Blank == -1000

\* the arguments of Change Event / Actor Reflection after convertVanillaArgs:
\* flags are "unchanged", "true" or "false"; an opacity of -1 resets the override
BlankArgs ==
    [character |-> "", index |-> Blank,
     reflectFloor |-> "unchanged", reflectWall |-> "unchanged",
     reflectFloorOpacity |-> Blank, reflectWallOpacity |-> Blank,
     reflectFloorXOffset |-> Blank, reflectFloorYOffset |-> Blank,
     reflectWallXOffset |-> Blank, reflectWallYOffset |-> Blank]

\* KCDev.Mirrors.convertChangeReflectArgs
convertChangeReflectArgs(char, args) ==
    [character |-> IF args.character = "" THEN reflectName(char) ELSE args.character,
     index |-> IF args.index = Blank THEN reflectIndex(char) ELSE args.index,
     reflectFloor |-> IF args.reflectFloor = "unchanged" THEN char.reflectFloor
                      ELSE args.reflectFloor = "true",
     reflectWall |-> IF args.reflectWall = "unchanged" THEN char.reflectWall
                     ELSE args.reflectWall = "true",
     reflectFloorOpacity |-> IF args.reflectFloorOpacity = Blank THEN char.reflectFloorOpacity
                             ELSE IF args.reflectFloorOpacity = -1 THEN Undefined
                             ELSE args.reflectFloorOpacity,
     reflectWallOpacity |-> IF args.reflectWallOpacity = Blank THEN char.reflectWallOpacity
                            ELSE IF args.reflectWallOpacity = -1 THEN Undefined
                            ELSE args.reflectWallOpacity,
     reflectFloorXOff |-> IF args.reflectFloorXOffset = Blank THEN char.reflectFloorXOff
                          ELSE args.reflectFloorXOffset,
     reflectFloorYOff |-> IF args.reflectFloorYOffset = Blank THEN char.reflectFloorYOff
                          ELSE args.reflectFloorYOffset,
     reflectWallXOff |-> IF args.reflectWallXOffset = Blank THEN char.reflectFloorXOff
                         ELSE args.reflectWallXOffset,
     reflectWallYOff |-> IF args.reflectWallYOffset = Blank THEN char.reflectFloorYOff
                         ELSE args.reflectWallYOffset]

\* the body of KCDev.Mirrors.setEventReflect / setActorReflect on a found target
setReflect(c, a) ==
    LET c1 == setReflectImage(c, a.character, a.index)
        c2 == reflectWallToggle(reflectFloorToggle(c1, a.reflectFloor), a.reflectWall)
        c3 == setReflectWallOpacity(setReflectFloorOpacity(c2, a.reflectFloorOpacity),
                                    a.reflectWallOpacity)
        c4 == setReflectFloorYOffset(setReflectFloorXOffset(c3, a.reflectFloorXOff),
                                     a.reflectFloorYOff)
    IN  setReflectWallYOffset(setReflectWallXOffset(c4, a.reflectWallXOff), a.reflectWallYOff)

\* the reflection settings of a character as its getters return them
Settings(c) ==
    [reflectName |-> reflectName(c), reflectIndex |-> reflectIndex(c),
     reflectFloor |-> c.reflectFloor, reflectWall |-> c.reflectWall,
     reflectFloorOpacity |-> c.reflectFloorOpacity,
     reflectWallOpacity |-> c.reflectWallOpacity,
     reflectFloorXOff |-> c.reflectFloorXOff, reflectFloorYOff |-> c.reflectFloorYOff,
     reflectWallXOff |-> c.reflectWallXOff, reflectWallYOff |-> c.reflectWallYOff]

settingsOnly == <<mapData, mapId, reflectWallPositions, currMapId, changes,
                  maxWallDistance, otherVars, gameMap, sprite, reflectionFloor, reflectionWall>>

\* MZ command Change Actor Reflection: setActorReflect on the converted arguments
changeActorReflect(id, args) ==
    /\ character.kind = "actor"
    /\ character' = IF id = character.id
                    THEN setReflect(character, convertChangeReflectArgs(character, args))
                    ELSE character
    /\ call' = [op |-> "changeActorReflect", id |-> id, args |-> args]
    /\ UNCHANGED settingsOnly

\* MZ command Change Event Reflection: setEventReflect on the converted arguments
changeEventReflect(id, args) ==
    /\ character.kind = "event"
    /\ character' = IF id = character.id
                    THEN setReflect(character, convertChangeReflectArgs(character, args))
                    ELSE character
    /\ call' = [op |-> "changeEventReflect", id |-> id, args |-> args]
    /\ UNCHANGED settingsOnly

\* DataManager.extractSaveContents on a save file written in this state: the
\* stored actor comes back field by field, then the notes of every actor
\* without a reflection graphic name are parsed again
extractSaveContents ==
    /\ character.kind = "actor"
    /\ character' = IF character.reflectName = ""
                    THEN parseMetaValues(character, character.notes, actorDefault)
                    ELSE character
    /\ call' = [NoCall EXCEPT !.op = "extractSaveContents"]
    /\ UNCHANGED settingsOnly


\* argument records that set one thing and leave the rest blank
ChangeArgs ==
    {BlankArgs}
    \cup {[BlankArgs EXCEPT !.character = "Mirror"]}
    \cup {[BlankArgs EXCEPT !.index = v] : v \in {0, 2}}
    \cup {[BlankArgs EXCEPT !.reflectFloor = v] : v \in {"true", "false"}}
    \cup {[BlankArgs EXCEPT !.reflectWall = v] : v \in {"true", "false"}}
    \cup {[BlankArgs EXCEPT !.reflectFloorOpacity = v] : v \in {-1, 128}}
    \cup {[BlankArgs EXCEPT !.reflectWallOpacity = v] : v \in {-1, 128}}
    \cup {[BlankArgs EXCEPT !.reflectFloorXOffset = 3],
          [BlankArgs EXCEPT !.reflectFloorYOffset = 5],
          [BlankArgs EXCEPT !.reflectWallXOffset = 7],
          [BlankArgs EXCEPT !.reflectWallYOffset = 9]}

\* the ids a command can name: the target's and one nobody has
CommandIds == {1, 9}

MirrorNotes == [NoCharacterNotes EXCEPT !.Reflect_Type = "FLOOR", !.Reflect_Char = "Mirror"]

\* an actor, set up from its notes by Game_Actor.prototype.setup
InitActor ==
    /\ InitOther
    /\ mapData = [m \in MapIds |-> MirrorRoom]
    /\ mapId = 1
    /\ InitCache
    /\ maxWallDistance = 20
    /\ gameMap = setupMapReflectOptions(FloorOnlyNotes)
    /\ \E n \in {NoCharacterNotes, MirrorNotes} :
          character = parseMetaValues([DefaultCharacter EXCEPT !.kind = "actor", !.notes = n],
                                      n, actorDefault)
    /\ sprite = DefaultSprite
    /\ reflectionFloor = NewReflection
    /\ reflectionWall = NewReflection

NextActor ==
    \/ \E id \in CommandIds, args \in ChangeArgs : changeActorReflect(id, args)
    \/ extractSaveContents

SpecActor == InitActor /\ [][NextActor]_vars


\* Game_Event.prototype.setupPage, run whenever the event's page changes
Game_Event_setupPage ==
    /\ character.kind = "event"
    /\ character' = parseMetaValues(character, character.notes, eventDefault)
    /\ call' = [NoCall EXCEPT !.op = "setupPage"]
    /\ UNCHANGED settingsOnly

\* the map is loaded again: Game_Map.prototype.setup parses the map's notes
\* and creates its events anew, each of which sets up its page
Game_Map_setupEvents ==
    /\ character.kind = "event"
    /\ gameMap' = setupMapReflectOptions(mapData[mapId].meta)
    /\ character' = parseMetaValues(character, character.notes, eventDefault)
    /\ call' = [NoCall EXCEPT !.op = "setupEvents"]
    /\ UNCHANGED <<mapData, mapId, reflectWallPositions, currMapId, changes,
                   maxWallDistance, otherVars, sprite, reflectionFloor, reflectionWall>>

\* the argument records used on the event that is also drawn every frame
EventChangeArgs ==
    {BlankArgs,
     [BlankArgs EXCEPT !.reflectFloor = "true"],
     [BlankArgs EXCEPT !.reflectFloor = "false"],
     [BlankArgs EXCEPT !.reflectWall = "true"],
     [BlankArgs EXCEPT !.reflectFloorOpacity = 128],
     [BlankArgs EXCEPT !.reflectFloorYOffset = 5],
     [BlankArgs EXCEPT !.reflectWallYOffset = 9]}

\* an event below the mirror of a map in either wall mode
InitEvent ==
    /\ InitOther
    /\ \E n \in {NoNotes, EventWallNotes} :
          /\ mapData = [m \in MapIds |-> [MirrorRoom EXCEPT !.meta = n]]
          /\ gameMap = setupMapReflectOptions(n)
    /\ mapId = 1
    /\ InitCache
    /\ maxWallDistance = 20
    /\ \E n \in {NoCharacterNotes, MirrorNotes} :
          character = parseMetaValues(
                        [DefaultCharacter EXCEPT !.kind = "event", !.notes = n,
                                                 !.y = MapHeight - 1,
                                                 !.realY = (MapHeight - 1) * StepsPerTile],
                        n, eventDefault)
    /\ sprite = DefaultSprite
    /\ reflectionFloor = NewReflection
    /\ reflectionWall = NewReflection

NextEvent ==
    \/ \E id \in CommandIds, args \in EventChangeArgs : changeEventReflect(id, args)
    \/ Game_Event_setupPage
    \/ Game_Map_refresh
    \/ Game_Map_setupEvents
    \/ updateOther(DefaultSprite)

SpecEvent == InitEvent /\ [][NextEvent]_vars


\* ------------------------------------------------------------ MV plugin commands
\* an argument that tryParseParameter does not turn into a number
NotANumber == -2000

\* the arguments of an MV plugin command: n is how many were given; the
\* fields past the n-th are not read by the code that accepts the command
MvArgs(kind) ==
    [n |-> 0, charType |-> kind, id |-> 1, reflectType |-> "floor", axis |-> "x",
     flag |-> "true", number |-> 4, name |-> "Mirror"]

\* KCDev.Mirrors.isNumMvArgsInRange
isNumMvArgsInRange(args, min, max) == args.n <= max /\ args.n >= min

\* KCDev.Mirrors.getCommonMvCommandArgs: is there a target, which here is the
\* one character of the model (id 0 names this event or the party leader)
getCommonMvCommandArgs(args) ==
    /\ args.charType \in {"actor", "event"}
    /\ args.id # NotANumber
    /\ args.charType = character.kind
    /\ args.id \in {0, character.id}

\* the test of the 3rd argument as the code writes it:
\* reflectType !== 'floor' && !reflectType !== 'wall' && reflectType !== 'all',
\* in which !reflectType is a boolean and so never equal to 'wall'
invalidReflectType(reflectType) ==
    reflectType # "floor" /\ TRUE /\ reflectType # "all"

\* what a command leaves alone besides the character
mvFrame(name, args) ==
    /\ call' = [op |-> name, args |-> args]
    /\ UNCHANGED settingsOnly

\* case 'setReflectVisible'
setReflectVisible(args) ==
    /\ mvFrame("setReflectVisible", args)
    /\ character' =
         IF ~isNumMvArgsInRange(args, 4, 4) \/ ~getCommonMvCommandArgs(args)
            \/ invalidReflectType(args.reflectType) \/ args.flag \notin {"true", "false"}
         THEN character
         ELSE LET reflectEnabled == args.flag = "true"
              IN  CASE args.reflectType = "floor" -> reflectFloorToggle(character, reflectEnabled)
                    [] args.reflectType = "wall" -> reflectWallToggle(character, reflectEnabled)
                    [] args.reflectType = "all" ->
                         reflectWallToggle(reflectFloorToggle(character, reflectEnabled),
                                           reflectEnabled)
                    [] OTHER -> character

\* case 'setReflectOpacity': without a 4th argument the opacity is undefined
setReflectOpacity(args) ==
    /\ mvFrame("setReflectOpacity", args)
    /\ character' =
         IF ~isNumMvArgsInRange(args, 3, 4) \/ ~getCommonMvCommandArgs(args)
            \/ invalidReflectType(args.reflectType)
            \/ (args.n > 3 /\ args.number = NotANumber)
         THEN character
         ELSE LET newOpacity == IF args.n > 3 THEN args.number ELSE Undefined
              IN  CASE args.reflectType = "floor" -> setReflectFloorOpacity(character, newOpacity)
                    [] args.reflectType = "wall" -> setReflectWallOpacity(character, newOpacity)
                    [] args.reflectType = "all" ->
                         setReflectWallOpacity(setReflectFloorOpacity(character, newOpacity),
                                               newOpacity)
                    [] OTHER -> character

\* case 'setReflectOffset'
setReflectOffset(args) ==
    /\ mvFrame("setReflectOffset", args)
    /\ character' =
         IF ~isNumMvArgsInRange(args, 5, 5) \/ ~getCommonMvCommandArgs(args)
            \/ invalidReflectType(args.reflectType)
            \/ args.axis \notin {"x", "y", "xy"} \/ args.number = NotANumber
         THEN character
         ELSE LET offset == args.number
                  hasX == args.axis \in {"x", "xy"}
                  hasY == args.axis \in {"y", "xy"}
                  floor(c) == LET cx == IF hasX THEN setReflectFloorXOffset(c, offset) ELSE c
                              IN  IF hasY THEN setReflectFloorYOffset(cx, offset) ELSE cx
                  wall(c) == LET cx == IF hasX THEN setReflectWallXOffset(c, offset) ELSE c
                             IN  IF hasY THEN setReflectWallYOffset(cx, offset) ELSE cx
              IN  CASE args.reflectType = "floor" -> floor(character)
                    [] args.reflectType = "wall" -> wall(character)
                    [] args.reflectType = "all" -> wall(floor(character))
                    [] OTHER -> character

\* case 'setReflectImage'
setReflectImageCommand(args) ==
    /\ mvFrame("setReflectImage", args)
    /\ character' =
         IF ~isNumMvArgsInRange(args, 3, 3) \/ ~getCommonMvCommandArgs(args)
         THEN character
         ELSE setReflectImage(character, args.name, reflectIndex(character))

\* case 'setReflectIndex'
setReflectIndex(args) ==
    /\ mvFrame("setReflectIndex", args)
    /\ character' =
         IF ~isNumMvArgsInRange(args, 3, 3) \/ ~getCommonMvCommandArgs(args)
            \/ (args.n > 1 /\ args.number = NotANumber)
         THEN character
         ELSE setReflectImage(character, reflectName(character),
                              IF args.n > 1 THEN args.number ELSE -1)


\* the argument lists the commands are run with: every accepted form, and
\* forms that differ from an accepted one in a single argument
ReflectTypes == {"floor", "wall", "all", "both"}

\* a 1st or 2nd argument that names no target: an unknown kind, an id that is
\* not a number, an id that no actor or event has
NoTargetArgs(kind, n) ==
    {[MvArgs(kind) EXCEPT !.n = n, !.charType = "npc"],
     [MvArgs(kind) EXCEPT !.n = n, !.id = NotANumber],
     [MvArgs(kind) EXCEPT !.n = n, !.id = 9]}

VisibleArgs(kind) ==
    {[MvArgs(kind) EXCEPT !.n = 4, !.reflectType = t, !.flag = f] :
        t \in ReflectTypes, f \in {"true", "false"}}
    \cup {[MvArgs(kind) EXCEPT !.n = 4, !.flag = "maybe"],
          [MvArgs(kind) EXCEPT !.n = 4, !.id = 0],
          [MvArgs(kind) EXCEPT !.n = 3]}
    \cup NoTargetArgs(kind, 4)

OpacityArgs(kind) ==
    {[MvArgs(kind) EXCEPT !.n = 4, !.reflectType = t, !.number = o] :
        t \in ReflectTypes, o \in {128, 300, Undefined}}
    \cup {[MvArgs(kind) EXCEPT !.n = 3, !.reflectType = t] : t \in ReflectTypes}
    \cup {[MvArgs(kind) EXCEPT !.n = 4, !.number = NotANumber],
          [MvArgs(kind) EXCEPT !.n = 5, !.number = 128]}
    \cup NoTargetArgs(kind, 4)

OffsetArgs(kind) ==
    {[MvArgs(kind) EXCEPT !.n = 5, !.reflectType = t, !.axis = a] :
        t \in ReflectTypes, a \in {"x", "y", "xy"}}
    \cup {[MvArgs(kind) EXCEPT !.n = 5, !.number = 0, !.axis = "xy", !.reflectType = "all"],
          [MvArgs(kind) EXCEPT !.n = 5, !.axis = "z"],
          [MvArgs(kind) EXCEPT !.n = 5, !.number = NotANumber],
          [MvArgs(kind) EXCEPT !.n = 4]}
    \cup NoTargetArgs(kind, 5)

ImageArgs(kind) ==
    {[MvArgs(kind) EXCEPT !.n = 3], [MvArgs(kind) EXCEPT !.n = 2],
     [MvArgs(kind) EXCEPT !.n = 2, !.id = 0]}
    \cup NoTargetArgs(kind, 3)

IndexArgs(kind) ==
    {[MvArgs(kind) EXCEPT !.n = 3], [MvArgs(kind) EXCEPT !.n = 2],
     [MvArgs(kind) EXCEPT !.n = 2, !.id = 0],
     [MvArgs(kind) EXCEPT !.n = 3, !.number = NotANumber]}
    \cup NoTargetArgs(kind, 3)

\* an actor or an event as it is set up, with and without notes
InitMvCommands ==
    /\ InitOther
    /\ mapData = [m \in MapIds |-> MirrorRoom]
    /\ mapId = 1
    /\ InitCache
    /\ maxWallDistance = 20
    /\ gameMap = setupMapReflectOptions(FloorOnlyNotes)
    /\ \E n \in {NoCharacterNotes, MirrorNotes} :
          \/ character = parseMetaValues(
                           [DefaultCharacter EXCEPT !.kind = "actor", !.notes = n],
                           n, actorDefault)
          \/ character = parseMetaValues(
                           [DefaultCharacter EXCEPT !.kind = "event", !.notes = n],
                           n, eventDefault)
    /\ sprite = DefaultSprite
    /\ reflectionFloor = NewReflection
    /\ reflectionWall = NewReflection

\* Game_Interpreter.prototype.pluginCommand
NextMvCommands ==
    \/ \E args \in VisibleArgs(character.kind) : setReflectVisible(args)
    \/ \E args \in OpacityArgs(character.kind) : setReflectOpacity(args)
    \/ \E args \in OffsetArgs(character.kind) : setReflectOffset(args)
    \/ \E args \in ImageArgs(character.kind) : setReflectImageCommand(args)
    \/ \E args \in IndexArgs(character.kind) : setReflectIndex(args)

SpecMvCommands == InitMvCommands /\ [][NextMvCommands]_vars


\* ------------------------------------------------------------ setters
\* a call of a setter: its name, whether its argument is left out, and the
\* argument, of which the setter reads the field of its own type
SetterCall == [setter |-> "none", omitted |-> FALSE, flag |-> TRUE, number |-> 4,
               filename |-> "Mirror"]

\* Game_CharacterBase.prototype.reflectDisable / reflectEnable
reflectDisable(c) == reflectWallToggle(reflectFloorToggle(c, FALSE), FALSE)
reflectEnable(c) == reflectWallToggle(reflectFloorToggle(c, TRUE), TRUE)

\* the setters of Game_CharacterBase with their default parameters:
\* reflect = !this.reflectFloor(), opacity undefined, x = 0, filename = '',
\* index = -1
callCharacterSetter(s, c) ==
    CASE s.setter = "reflectFloorToggle" ->
           reflectFloorToggle(c, IF s.omitted THEN ~c.reflectFloor ELSE s.flag)
      [] s.setter = "reflectWallToggle" ->
           reflectWallToggle(c, IF s.omitted THEN ~c.reflectWall ELSE s.flag)
      [] s.setter = "reflectDisable" -> reflectDisable(c)
      [] s.setter = "reflectEnable" -> reflectEnable(c)
      [] s.setter = "setReflectFloorOpacity" ->
           setReflectFloorOpacity(c, IF s.omitted THEN Undefined ELSE s.number)
      [] s.setter = "setReflectWallOpacity" ->
           setReflectWallOpacity(c, IF s.omitted THEN Undefined ELSE s.number)
      [] s.setter = "setReflectFloorXOffset" ->
           setReflectFloorXOffset(c, IF s.omitted THEN 0 ELSE s.number)
      [] s.setter = "setReflectFloorYOffset" ->
           setReflectFloorYOffset(c, IF s.omitted THEN 0 ELSE s.number)
      [] s.setter = "setReflectWallXOffset" ->
           setReflectWallXOffset(c, IF s.omitted THEN 0 ELSE s.number)
      [] s.setter = "setReflectWallYOffset" ->
           setReflectWallYOffset(c, IF s.omitted THEN 0 ELSE s.number)
      [] s.setter = "setReflectImage" ->
           setReflectImage(c, IF s.omitted THEN "" ELSE s.filename,
                              IF s.omitted THEN Undefined ELSE s.number)
      [] OTHER -> c

\* the setters of Game_Map with their default parameters: reflectWall = false,
\* reflectFloor = false, x = 0; setReflectMode has none and stores undefined
callMapSetter(s, g) ==
    CASE s.setter = "Game_Map.setReflectWall" ->
           Game_Map_setReflectWall(g, IF s.omitted THEN FALSE ELSE s.flag)
      [] s.setter = "Game_Map.setReflectFloor" ->
           Game_Map_setReflectFloor(g, IF s.omitted THEN FALSE ELSE s.flag)
      [] s.setter = "Game_Map.setReflectMode" ->
           Game_Map_setReflectMode(g, IF s.omitted THEN Undefined ELSE s.number)
      [] s.setter = "Game_Map.setReflectFloorXOffset" ->
           Game_Map_setReflectFloorXOffset(g, IF s.omitted THEN 0 ELSE s.number)
      [] s.setter = "Game_Map.setReflectFloorYOffset" ->
           Game_Map_setReflectFloorYOffset(g, IF s.omitted THEN 0 ELSE s.number)
      [] s.setter = "Game_Map.setReflectWallXOffset" ->
           Game_Map_setReflectWallXOffset(g, IF s.omitted THEN 0 ELSE s.number)
      [] s.setter = "Game_Map.setReflectWallYOffset" ->
           Game_Map_setReflectWallYOffset(g, IF s.omitted THEN 0 ELSE s.number)
      [] OTHER -> g

\* the pair of the character and the map after a setter call
callSetter(s, st) == [character |-> callCharacterSetter(s, st.character),
                      gameMap |-> callMapSetter(s, st.gameMap)]

FlagSetters == {"reflectFloorToggle", "reflectWallToggle",
                "Game_Map.setReflectWall", "Game_Map.setReflectFloor"}
NumberSetters == {"setReflectFloorOpacity", "setReflectWallOpacity",
                  "setReflectFloorXOffset", "setReflectFloorYOffset",
                  "setReflectWallXOffset", "setReflectWallYOffset",
                  "Game_Map.setReflectFloorXOffset", "Game_Map.setReflectFloorYOffset",
                  "Game_Map.setReflectWallXOffset", "Game_Map.setReflectWallYOffset"}

\* the calls that are made: every setter without its argument and with one
SetterCalls ==
    {[SetterCall EXCEPT !.setter = n, !.flag = f] : n \in FlagSetters, f \in BOOLEAN}
    \cup {[SetterCall EXCEPT !.setter = n] : n \in NumberSetters \cup {"setReflectImage"}}
    \cup {[SetterCall EXCEPT !.setter = n, !.omitted = TRUE] :
             n \in FlagSetters \cup NumberSetters
                   \cup {"setReflectImage", "Game_Map.setReflectMode"}}
    \cup {[SetterCall EXCEPT !.setter = "Game_Map.setReflectMode", !.number = m] :
             m \in {perspective, event}}
    \cup {[SetterCall EXCEPT !.setter = n] : n \in {"reflectDisable", "reflectEnable"}}

\* a script call of one setter of the event or of the map
scriptCallSetter(s) ==
    /\ character' = callCharacterSetter(s, character)
    /\ gameMap' = callMapSetter(s, gameMap)
    /\ call' = [NoCall EXCEPT !.op = "setter"]
    /\ UNCHANGED <<mapData, mapId, reflectWallPositions, currMapId, changes,
                   maxWallDistance, otherVars, sprite, reflectionFloor, reflectionWall>>

InitSetters ==
    /\ InitOther
    /\ mapData = [m \in MapIds |-> MirrorRoom]
    /\ mapId = 1
    /\ InitCache
    /\ maxWallDistance = 20
    /\ gameMap = setupMapReflectOptions(FloorOnlyNotes)
    /\ character = parseMetaValues([DefaultCharacter EXCEPT !.kind = "event"],
                                   NoCharacterNotes, eventDefault)
    /\ sprite = DefaultSprite
    /\ reflectionFloor = NewReflection
    /\ reflectionWall = NewReflection

NextSetters == \E s \in SetterCalls : scriptCallSetter(s)

SpecSetters == InitSetters /\ [][NextSetters]_vars


\* ------------------------------------------------------------ graphics
\* Game_CharacterBase.prototype.setImage: the engine's method, then a refresh request
setImage(c, characterName, characterIndex) ==
    [c EXCEPT !.tileId = 0, !.characterName = characterName,
              !.characterIndex = characterIndex, !.reflectRefreshRequested = TRUE]

\* what a script call on the event leaves alone
graphicFrame ==
    UNCHANGED <<mapData, mapId, reflectWallPositions, currMapId, changes,
                maxWallDistance, otherVars, gameMap, sprite, reflectionFloor, reflectionWall>>

\* script call event.setImage(characterName, characterIndex)
scriptCallSetImage(characterName, characterIndex) ==
    /\ character' = setImage(character, characterName, characterIndex)
    /\ call' = [op |-> "setImage", filename |-> characterName, index |-> characterIndex]
    /\ graphicFrame

\* script call event.setReflectImage(filename, index)
scriptCallSetReflectImage(filename, index) ==
    /\ character' = setReflectImage(character, filename, index)
    /\ call' = [op |-> "setReflectImage", filename |-> filename, index |-> index]
    /\ graphicFrame

\* the first updateOther of a new Sprite_Character of the event, made when
\* the scene's spriteset is built: updateReflectionSprite finds no
\* reflection sprites, createReflectionSprites makes them and requests a
\* refresh, and the update goes on as every other
firstUpdateOther(s) ==
    /\ mapId \in MapIds
    /\ sprite' = s
    /\ LET f0 == refreshGraphic(NewReflection)
           w0 == refreshGraphic(NewReflection)
           cx == Whole(character.x)
           cy == Whole(character.y)
           wallY == getWallYValue(cx, cy)
       IN  /\ reflectionFloor' = updateReflectFloor(f0, s)
           /\ reflectionWall' = updateReflectWall(w0, s, wallY)
           /\ call' = [op |-> "firstUpdateOther", x |-> cx, y |-> cy, queried |-> wallWanted,
                       ret |-> IF wallWanted THEN wallY ELSE -1,
                       rebuilt |-> wallWanted /\ needsRebuild, changes |-> changes]
    /\ character' = [character EXCEPT !.reflectRefreshRequested = FALSE]
    /\ IF wallWanted THEN getWallYEffect
       ELSE UNCHANGED <<reflectWallPositions, currMapId, changes>>
    /\ UNCHANGED <<mapData, mapId, maxWallDistance, otherVars, gameMap>>

CharacterNames == {"Actor1", "People2"}
CharacterIndexes == {3, 5}
ReflectNames == {"", "Mirror"}
ReflectIndexes == {-1, 0, 1}

\* an event with both reflections on, below the mirror of the room, when its
\* sprite has just been made
InitGraphic ==
    /\ InitOther
    /\ mapData = [m \in MapIds |-> [MirrorRoom EXCEPT !.meta = NoNotes]]
    /\ mapId = 1
    /\ InitCache
    /\ maxWallDistance = 20
    /\ gameMap = setupMapReflectOptions(NoNotes)
    /\ character = [DefaultCharacter EXCEPT !.kind = "event", !.y = MapHeight - 1,
                                            !.realY = (MapHeight - 1) * StepsPerTile]
    /\ sprite = DefaultSprite
    /\ reflectionFloor = NewReflection
    /\ reflectionWall = NewReflection

NextGraphic ==
    \/ \E n \in CharacterNames, i \in CharacterIndexes : scriptCallSetImage(n, i)
    \/ \E n \in ReflectNames, i \in ReflectIndexes : scriptCallSetReflectImage(n, i)
    \/ firstUpdateOther(DefaultSprite)
    \/ updateOther(DefaultSprite)

SpecGraphic == InitGraphic /\ [][NextGraphic]_vars


\* ------------------------------------------------------------ wall mode
\* what no action on the mode variable touches
wallModeFrame ==
    UNCHANGED <<mapData, mapId, reflectWallPositions, currMapId, changes,
                maxWallDistance, plugin, actor, characterSprites, gameMap, character,
                sprite, reflectionFloor, reflectionWall>>

\* KCDev.Mirrors.setWallReflectMode(mode); without argument the mode is
\* KCDev.Mirrors.wallReflectType
setWallReflectMode(mode) ==
    /\ gameVariables' = IF plugin.wallReflectVar # 0
                        THEN [gameVariables EXCEPT ![plugin.wallReflectVar] = mode]
                        ELSE gameVariables
    /\ call' = [op |-> "setWallReflectMode", mode |-> mode]
    /\ wallModeFrame

\* the event command Control Variables, or $gameVariables.setValue in a script
setValue(variableId, value) ==
    /\ gameVariables' = [gameVariables EXCEPT ![variableId] = value]
    /\ call' = [op |-> "setValue", mode |-> value]
    /\ wallModeFrame

\* a call of KCDev.Mirrors.getWallReflectMode
callGetWallReflectMode ==
    /\ call' = [op |-> "getWallReflectMode", ret |-> getWallReflectMode]
    /\ UNCHANGED gameVariables
    /\ wallModeFrame

\* the values of the mode variable: numbers, the two modes, another string
VariableValues == {"0", "1", "perspective", "event", "isometric"}

\* the game starts with the parameters of the plugin manager loaded: either
\* mode as the default, the mode variable bound to variable 5 or to none
InitWallMode ==
    /\ mapData = [m \in MapIds |-> MirrorRoom]
    /\ mapId = 1
    /\ InitCache
    /\ maxWallDistance = 20
    /\ \E t \in {"perspective", "event"}, v \in {0} \cup VariableIds, z \in BOOLEAN :
          plugin = loadParameters([DefaultParameters EXCEPT !.wallReflectType = t,
                                                            !.wallReflectVar = v,
                                                            !.attemptFixZFight = z])
    /\ gameVariables = [v \in VariableIds |-> "0"]
    /\ actor = DefaultCharacter
    /\ characterSprites = <<>>
    /\ gameMap = setupMapReflectOptions(FloorOnlyNotes)
    /\ character = DefaultCharacter
    /\ sprite = DefaultSprite
    /\ reflectionFloor = NewReflection
    /\ reflectionWall = NewReflection

NextWallMode ==
    \/ \E mode \in {"perspective", "event"} : setWallReflectMode(mode)
    \/ setWallReflectMode(plugin.wallReflectType)
    \/ \E id \in VariableIds, value \in VariableValues : setValue(id, value)
    \/ callGetWallReflectMode

SpecWallMode == InitWallMode /\ [][NextWallMode]_vars


\* ------------------------------------------------------------ z order
\* how many character sprites the spriteset holds
NumSprites == 3
\* the largest _realY, in steps, a character is moved to
MaxSpriteY == 2
SpriteYs == 0 .. MaxSpriteY

\* a Sprite_Character of the spriteset: the _realY of its character, in
\* steps, whether it has its _reflectionWall yet, and that sprite's z
NewSprite == [realY |-> 0, hasWall |-> FALSE, z |-> 0]

\* Sprite_Reflect.initMembers: this.z = 2 * KCDev.Mirrors.zValue
initialZ == 2 * plugin.zValue

\* the base update of the spriteset: every character sprite without
\* reflection sprites creates them in its updateReflectionSprite
createAll(charSprites) ==
    [i \in DOMAIN charSprites |->
        IF charSprites[i].hasWall THEN charSprites[i]
        ELSE [charSprites[i] EXCEPT !.hasWall = TRUE, !.z = initialZ]]

\* the orders Array.prototype.sort can leave the sprites in: position -> index
\* of the sprite, ascending in _realY, sprites of equal _realY in any order
sortedOrders(charSprites) ==
    {o \in [DOMAIN charSprites -> DOMAIN charSprites] :
        /\ \A i, j \in DOMAIN charSprites : i # j => o[i] # o[j]
        /\ \A i, j \in DOMAIN charSprites :
              i < j => charSprites[o[i]].realY <= charSprites[o[j]].realY}

\* variant: the sprites sorted from south to north
sortedOrdersDescending(charSprites) ==
    {o \in [DOMAIN charSprites -> DOMAIN charSprites] :
        /\ \A i, j \in DOMAIN charSprites : i # j => o[i] # o[j]
        /\ \A i, j \in DOMAIN charSprites :
              i < j => charSprites[o[i]].realY >= charSprites[o[j]].realY}

\* the order that sortWallSpritesByY walks the sprites in
wallSpriteOrders(charSprites) == sortedOrders(charSprites)

\* KCDev.Mirrors.sortWallSpritesByY, the sorted order being o: z starts at
\* 2 * zValue and goes down by one at every sprite that has a wall reflection
sortWallSpritesByY(charSprites, o) ==
    LET before(p) == Cardinality({q \in DOMAIN charSprites :
                                     q < p /\ charSprites[o[q]].hasWall})
        position(i) == CHOOSE p \in DOMAIN charSprites : o[p] = i
    IN  [i \in DOMAIN charSprites |->
            IF charSprites[i].hasWall
            THEN [charSprites[i] EXCEPT !.z = 2 * plugin.zValue - before(position(i))]
            ELSE charSprites[i]]

zFrame ==
    UNCHANGED <<mapData, mapId, reflectWallPositions, currMapId, changes,
                maxWallDistance, plugin, gameVariables, actor, gameMap, character,
                sprite, reflectionFloor, reflectionWall>>

\* Spriteset_Map.prototype.update
Spriteset_Map_update ==
    /\ LET created == createAll(characterSprites)
       IN  IF plugin.useZFightFix /\ gameMap.reflectMode = perspective
           THEN \E o \in wallSpriteOrders(created) :
                   characterSprites' = sortWallSpritesByY(created, o)
           ELSE characterSprites' = created
    /\ call' = [NoCall EXCEPT !.op = "Spriteset_Map.update"]
    /\ zFrame

\* a character of the map moves: its _realY changes
moveCharacter(i, realY) ==
    /\ i \in DOMAIN characterSprites
    /\ characterSprites' = [characterSprites EXCEPT ![i].realY = realY]
    /\ call' = [NoCall EXCEPT !.op = "move"]
    /\ zFrame

\* a map scene starts: characters anywhere, sprites without reflections yet
InitZ ==
    /\ mapData = [m \in MapIds |-> MirrorRoom]
    /\ mapId = 1
    /\ InitCache
    /\ maxWallDistance = 20
    /\ \E z \in BOOLEAN :
          plugin = loadParameters([DefaultParameters EXCEPT !.attemptFixZFight = z])
    /\ gameVariables = [v \in VariableIds |-> "0"]
    /\ actor = DefaultCharacter
    /\ characterSprites \in [1 .. NumSprites -> {[NewSprite EXCEPT !.realY = y] : y \in SpriteYs}]
    /\ \E n \in {NoNotes, EventWallNotes} : gameMap = setupMapReflectOptions(n)
    /\ character = DefaultCharacter
    /\ sprite = DefaultSprite
    /\ reflectionFloor = NewReflection
    /\ reflectionWall = NewReflection

NextZ ==
    \/ Spriteset_Map_update
    \/ \E i \in 1 .. NumSprites, y \in SpriteYs : moveCharacter(i, y)

SpecZ == InitZ /\ [][NextZ]_vars


\* ------------------------------------------------------------ floor transform
\* the transforms the character's own sprite takes: scale, pivot, rotation
\* in quarter turns, opacity
FloorSprites ==
    {[DefaultSprite EXCEPT !.scaleX = sx, !.scaleY = sy, !.pivotY = p,
                           !.rotation = q, !.opacity = a] :
        sx \in {1, 2}, sy \in {1, 3}, p \in {0, 48}, q \in {0, 1}, a \in {255, 100}}

\* a character on the floor of the room, with any jump, floor opacity and
\* floor offsets, on a map with any floor offsets
InitFloor ==
    /\ InitOther
    /\ mapData = [m \in MapIds |-> [MirrorRoom EXCEPT !.meta = NoNotes]]
    /\ mapId = 1
    /\ InitCache
    /\ maxWallDistance = 20
    /\ \E x \in MapOffsets, y \in MapOffsets :
          gameMap = [setupMapReflectOptions(NoNotes) EXCEPT !.reflectFloorXOff = x,
                                                            !.reflectFloorYOff = y]
    /\ \E j \in {0, 10}, o \in {Undefined, 0, 128}, x \in CharacterXOffsets,
          y \in CharacterYOffsets, t \in BOOLEAN :
          character = [DefaultCharacter EXCEPT !.y = MapHeight - 1,
                                               !.realY = (MapHeight - 1) * StepsPerTile,
                                               !.jumpHeight = j,
                                               !.transparent = t,
                                               !.reflectFloorOpacity = o,
                                               !.reflectFloorXOff = x,
                                               !.reflectFloorYOff = y]
    /\ sprite = DefaultSprite
    /\ reflectionFloor = NewReflection
    /\ reflectionWall = NewReflection

NextFloor == \E s \in FloorSprites : updateOther(s)

SpecFloor == InitFloor /\ [][NextFloor]_vars


\* ------------------------------------------------------------ frames
\* Game_CharacterBase.prototype.reverseDir
reverseDir(d) == 10 - d

\* Galv.CF: the frames per pattern that a graphic's file name asks for
cframesOf(characterName) == IF characterName = "Mirror" THEN 4 ELSE 3

\* what the frame maths of Sprite_Character reads of its character, for the
\* reflection sprite r: characterBlockX/Y (index), characterPatternY
\* (direction, or the diagonal direction under Galv), the pattern count
frameOf(r, c) ==
    [bitmap |-> r.characterName, characterName |-> c.characterName,
     characterIndex |-> c.characterIndex, direction |-> c.direction,
     cframes |-> c.cframes, diagDir |-> c.diagDir]

\* setReflectFrame: store these values
storeCharacter(c) ==
    [characterIndex |-> c.characterIndex, characterName |-> c.characterName,
     direction |-> c.direction]

\* setReflectFrame: load in reflection parameters
loadReflection(r, c, isReflectionWall) ==
    [c EXCEPT !.characterName = r.characterName,
              !.characterIndex = r.characterIndex,
              !.direction = IF isReflectionWall THEN reverseDir(c.direction) ELSE @]

\* variant: the direction is not put back
restoreCharacterButDirection(c, temp) ==
    [c EXCEPT !.characterIndex = temp.characterIndex,
              !.characterName = temp.characterName]

\* setReflectFrame: restore character properties
restoreCharacter(c, temp) ==
    [c EXCEPT !.characterIndex = temp.characterIndex,
              !.characterName = temp.characterName,
              !.direction = temp.direction]

\* KCDev.Mirrors.setReflectFrame as the plugin defines it: the character
\* after the call and the frame that was set
setReflectFrameBase(r, c, isReflectionWall) ==
    LET temp == storeCharacter(c)
        loaded == loadReflection(r, c, isReflectionWall)
    IN  [character |-> restoreCharacter(loaded, temp), frame |-> frameOf(r, loaded)]

\* the wrapper made when Galv_CharacterFrames is imported
setReflectFrame_GalvCF(r, c, isReflectionWall) ==
    LET tmpCFrames == c.cframes
        inner == setReflectFrameBase(r, [c EXCEPT !.cframes = cframesOf(r.characterName)],
                                     isReflectionWall)
    IN  [inner EXCEPT !.character.cframes = tmpCFrames]

\* the wrapper made when Galv_DiagonalMovement is imported, around the
\* function as it is then
setReflectFrame(r, c, isReflectionWall) ==
    LET wrapped(cc) == IF "Galv_CharacterFrames" \in plugin.imported
                       THEN setReflectFrame_GalvCF(r, cc, isReflectionWall)
                       ELSE setReflectFrameBase(r, cc, isReflectionWall)
    IN  IF "Galv_DiagonalMovement" \in plugin.imported
        THEN LET tmpDiagDir == c.diagDir
                 inner == wrapped(IF isReflectionWall /\ tmpDiagDir # 0
                                  THEN [c EXCEPT !.diagDir = reverseDir(tmpDiagDir)]
                                  ELSE c)
             IN  [inner EXCEPT !.character.diagDir = tmpDiagDir]
        ELSE wrapped(c)

\* KCDev.Mirrors.handleReflectFrame on the reflection sprite r: a tile of the
\* character's own tileset is drawn by updateTileFrame, which reads no
\* character field
handleReflectFrameCall(r, c, isReflectionWall) ==
    IF c.tileId > 0 /\ c.characterName = r.characterName
    THEN [character |-> c, frame |-> [frameOf(r, c) EXCEPT !.bitmap = "tileset"]]
    ELSE setReflectFrame(r, c, isReflectionWall)

frameFrame ==
    UNCHANGED <<mapData, mapId, reflectWallPositions, currMapId, changes,
                maxWallDistance, otherVars, gameMap, sprite, reflectionFloor,
                reflectionWall>>

\* the call of handleReflectFrame that updateReflectFloor (isReflectionWall
\* false) and updateReflectWall (true) make for a visible reflection
callHandleReflectFrame(isReflectionWall) ==
    LET r == IF isReflectionWall THEN reflectionWall ELSE reflectionFloor
        done == handleReflectFrameCall(r, character, isReflectionWall)
    IN  /\ character' = done.character
        /\ call' = [op |-> "handleReflectFrame", isReflectionWall |-> isReflectionWall,
                    frame |-> done.frame]
        /\ frameFrame

\* the character turns, straight or, under Galv_DiagonalMovement, diagonally
setDirection(d, diagDir) ==
    /\ character' = [character EXCEPT !.direction = d, !.diagDir = diagDir]
    /\ call' = [op |-> "setDirection", isReflectionWall |-> FALSE, frame |-> d]
    /\ frameFrame

Directions == {2, 4, 6, 8}
DiagDirs == {0, 1, 9}

\* an event below the mirror, its sprite just made, any Galv plugins imported
InitFrame ==
    /\ mapData = [m \in MapIds |-> [MirrorRoom EXCEPT !.meta = NoNotes]]
    /\ mapId = 1
    /\ InitCache
    /\ maxWallDistance = 20
    /\ \E i \in SUBSET {"Galv_CharacterFrames", "Galv_DiagonalMovement"} :
          plugin = [DefaultPlugin EXCEPT !.imported = i]
    /\ gameVariables = [v \in VariableIds |-> "0"]
    /\ actor = DefaultCharacter
    /\ characterSprites = <<>>
    /\ gameMap = setupMapReflectOptions(NoNotes)
    /\ \E t \in {0, 5} :
          character = [DefaultCharacter EXCEPT !.kind = "event", !.y = MapHeight - 1,
                                               !.realY = (MapHeight - 1) * StepsPerTile,
                                               !.tileId = t,
                                               !.characterName = IF t > 0 THEN "" ELSE "Actor1"]
    /\ sprite = DefaultSprite
    /\ reflectionFloor = NewReflection
    /\ reflectionWall = NewReflection

NextFrame ==
    \/ \E i \in CharacterIndexes : scriptCallSetImage("People2", i)
    \/ \E n \in ReflectNames : scriptCallSetReflectImage(n, 1)
    \/ \E d \in Directions, g \in DiagDirs : setDirection(d, g)
    \/ updateOther(DefaultSprite)
    \/ \E w \in BOOLEAN : callHandleReflectFrame(w)

SpecFrame == InitFrame /\ [][NextFrame]_vars


\* ------------------------------------------------------------ player and followers
\* variant: the actor's wall flag is not copied
updateActorCharacterReflectButWall(a, c) ==
    LET differs == reflectName(c) # reflectName(a) \/ reflectIndex(c) # reflectIndex(a)
        c1 == IF differs THEN setReflectImage(c, reflectName(a), reflectIndex(a)) ELSE c
        c2 == reflectFloorToggle(c1, a.reflectFloor)
        c4 == setReflectFloorOpacity(c2, a.reflectFloorOpacity)
        c5 == setReflectWallOpacity(c4, a.reflectWallOpacity)
        c6 == setReflectFloorXOffset(c5, a.reflectFloorXOff)
        c7 == setReflectFloorYOffset(c6, a.reflectFloorYOff)
        c8 == setReflectWallXOffset(c7, a.reflectWallXOff)
    IN  setReflectWallYOffset(c8, a.reflectWallYOff)

\* KCDev.Mirrors.updateActorCharacterReflect(actor, character), actor not null
updateActorCharacterReflect(a, c) ==
    LET differs == reflectName(c) # reflectName(a) \/ reflectIndex(c) # reflectIndex(a)
        c1 == IF differs THEN setReflectImage(c, reflectName(a), reflectIndex(a)) ELSE c
        c2 == reflectFloorToggle(c1, a.reflectFloor)
        c3 == reflectWallToggle(c2, a.reflectWall)
        c4 == setReflectFloorOpacity(c3, a.reflectFloorOpacity)
        c5 == setReflectWallOpacity(c4, a.reflectWallOpacity)
        c6 == setReflectFloorXOffset(c5, a.reflectFloorXOff)
        c7 == setReflectFloorYOffset(c6, a.reflectFloorYOff)
        c8 == setReflectWallXOffset(c7, a.reflectWallXOff)
    IN  setReflectWallYOffset(c8, a.reflectWallYOff)

playerFrame ==
    UNCHANGED <<mapData, mapId, reflectWallPositions, currMapId, changes,
                maxWallDistance, plugin, gameVariables, characterSprites, gameMap,
                sprite, reflectionFloor, reflectionWall>>

\* Game_Player.prototype.update: the leader's settings, when the party has one
\* (an actor of id 0 stands for no actor)
Game_Player_update ==
    /\ character.kind = "player"
    /\ character' = IF actor.id # 0 THEN updateActorCharacterReflect(actor, character)
                    ELSE character
    /\ call' = [NoCall EXCEPT !.op = "Game_Player.update"]
    /\ UNCHANGED actor
    /\ playerFrame

\* Game_Follower.prototype.update: the settings of the follower's actor, if any
Game_Follower_update ==
    /\ character.kind = "follower"
    /\ character' = IF actor.id # 0 THEN updateActorCharacterReflect(actor, character)
                    ELSE character
    /\ call' = [NoCall EXCEPT !.op = "Game_Follower.update"]
    /\ UNCHANGED actor
    /\ playerFrame

\* the setter calls made on the actor and, directly, on its map character
PartySetterCalls ==
    {[SetterCall EXCEPT !.setter = "reflectWallToggle", !.omitted = TRUE]}
    \cup {[SetterCall EXCEPT !.setter = n, !.omitted = o] :
             n \in {"setReflectWallYOffset", "setReflectImage"}, o \in BOOLEAN}
    \cup {[SetterCall EXCEPT !.setter = "setReflectImage", !.number = 0]}

\* a script call of a setter of the Game_Actor
actorSetter(s) ==
    /\ actor.id # 0
    /\ actor' = callCharacterSetter(s, actor)
    /\ call' = [NoCall EXCEPT !.op = "actor setter"]
    /\ UNCHANGED character
    /\ playerFrame

\* a script call of a setter of $gamePlayer or of a follower
characterSetter(s) ==
    /\ character' = callCharacterSetter(s, character)
    /\ call' = [NoCall EXCEPT !.op = "character setter"]
    /\ UNCHANGED actor
    /\ playerFrame

\* the player or a follower on a new map, the party with or without an actor
\* for it, the actor as Game_Actor.prototype.setup makes it from its notes
InitPlayer ==
    /\ mapData = [m \in MapIds |-> [MirrorRoom EXCEPT !.meta = NoNotes]]
    /\ mapId = 1
    /\ InitCache
    /\ maxWallDistance = 20
    /\ plugin = DefaultPlugin
    /\ gameVariables = [v \in VariableIds |-> "0"]
    /\ characterSprites = <<>>
    /\ \E n \in {NoCharacterNotes, MirrorNotes}, id \in {0, 1} :
          actor = parseMetaValues([DefaultCharacter EXCEPT !.kind = "actor", !.notes = n,
                                                           !.id = id],
                                  n, actorDefault)
    /\ gameMap = setupMapReflectOptions(NoNotes)
    /\ \E k \in {"player", "follower"} :
          character = [DefaultCharacter EXCEPT !.kind = k, !.y = MapHeight - 1,
                                               !.realY = (MapHeight - 1) * StepsPerTile,
                                               !.reflectFloor = FALSE, !.reflectWall = FALSE]
    /\ sprite = DefaultSprite
    /\ reflectionFloor = NewReflection
    /\ reflectionWall = NewReflection

\* updateOther leaves the actor and the other globals alone
NextPlayer ==
    \/ Game_Player_update
    \/ Game_Follower_update
    \/ \E s \in PartySetterCalls : actorSetter(s)
    \/ \E s \in PartySetterCalls : characterSetter(s)
    \/ updateOther(DefaultSprite)

SpecPlayer == InitPlayer /\ [][NextPlayer]_vars

\* ------------------------------------------------------------ properties
\* what the current map holds, read off the region grid
WallRows(x) == {j \in 0 .. (height - 1) : regionId(x, j) \in wallRegions}
WallColumns == {x \in 0 .. (width - 1) : WallRows(x) # {}}
NearestWallAbove(x, y) ==
    IF \E j \in WallRows(x) : j <= y
    THEN CHOOSE j \in WallRows(x) : j <= y /\ \A k \in WallRows(x) : k <= y => k <= j
    ELSE -1
StrictlyDescending(col) == \A a, b \in 1 .. Len(col) : a < b => col[a] > col[b]
CacheMatchesMap ==
    /\ DOMAIN reflectWallPositions = WallColumns
    /\ \A x \in WallColumns :
          LET col == reflectWallPositions[x]
          IN  StrictlyDescending(col) /\ {col[k] : k \in 1 .. Len(col)} = WallRows(x)
afterQuery == call.op = "getWallY"
afterUpdate == call.op = "updateOther"
onRegion(ids) == mapData[mapId].region[character.x][character.y] \in ids

\* C1: a query at whole coordinates (x, y) returns the largest wall row wy <= y
\* of column x of the current map, and -1 when the column has no such row.
C1_NearestWall ==
    afterQuery /\ ~call.x.frac /\ ~call.y.frac
        => call.ret = NearestWallAbove(call.x.i, call.y.i)

\* C2: after any sequence of map changes, refreshes and queries, once a query
\* has run the cache holds, for every column of the current map, exactly that
\* column's wall rows, once each, in strictly descending order, and no entry
\* for a column without wall tiles.
C2_CacheHoldsCurrentMap == afterQuery => CacheMatchesMap

\* C3: a query at fractional coordinates returns what the query at the floored
\* coordinates returns.
C3_FractionalFloors ==
    afterQuery => call.ret = searchWallY(reflectWallPositions, Whole(call.x.i), Whole(call.y.i))

\* C4 as stated: two consecutive queries with the same arguments return the
\* same result and the second does not rebuild, and a query rebuilds exactly
\* when the map id changed since the last rebuild (one rebuild per change).
C4_OneRebuildPerChange ==
    [][call'.op = "getWallY" =>
          /\ (call.op = "getWallY" /\ call'.x = call.x /\ call'.y = call.y
                 => call'.ret = call.ret /\ ~call'.rebuilt)
          /\ (call'.rebuilt <=> changes > 0)]_vars

\* C4 amended: two consecutive queries with the same arguments return the same
\* result and the second leaves the cache alone; a query rebuilds only after
\* the map id changed since the last rebuild, and then the cache is the
\* current map's; a query that does not rebuild leaves the cache as it was,
\* even when the map id changed and changed back in between.
C4_RebuildOnlyAfterChange ==
    [][call'.op = "getWallY" =>
          /\ (call.op = "getWallY" /\ call'.x = call.x /\ call'.y = call.y
                 => call'.ret = call.ret /\ ~call'.rebuilt)
          /\ (call'.rebuilt => changes > 0 /\ CacheMatchesMap')
          /\ (~call'.rebuilt => reflectWallPositions' = reflectWallPositions)]_vars

\* a query that did not rebuild although the map id changed before it
C4_Witness == afterQuery /\ ~call.rebuilt /\ call.changes > 0

\* C5: in perspective mode a visible wall reflection is scaled on both axes by
\* clamp(1 - (d - 1) / maxWallDistance, 0, 1), d the distance to the wall in
\* tiles: 1 for d <= 1, 0 for d >= maxWallDistance + 1, linear in between.
\* With ScaleDen = StepsPerTile * maxWallDistance the factor is e / ScaleDen.
C5_PerspectiveScale ==
    afterUpdate /\ reflectionWall.visible /\ gameMap.reflectMode = perspective =>
        LET dist == character.realY - call.ret * StepsPerTile
            e == IF dist <= StepsPerTile THEN ScaleDen
                 ELSE IF dist >= StepsPerTile * (maxWallDistance + 1) THEN 0
                 ELSE ScaleDen - (dist - StepsPerTile)
        IN  /\ reflectionWall.scaleY = sprite.scaleY * e
            /\ reflectionWall.scaleX \in {sprite.scaleX * e, 0 - sprite.scaleX * e}

\* d = 4 and maxWallDistance = 20 give the factor 0.85 = 17 / 20
C5_Witness ==
    /\ afterUpdate /\ reflectionWall.visible /\ gameMap.reflectMode = perspective
    /\ maxWallDistance = 20
    /\ character.realY - call.ret * StepsPerTile = 4 * StepsPerTile
    /\ reflectionWall.scaleY * 20 = sprite.scaleY * 17 * ScaleDen
    /\ sprite.scaleY = 3

\* C6: in event mode a visible wall reflection sits at
\* y = sourceY - tileHeight * d * 2 + tileHeight - jumpHeight + offsets
\* and keeps the magnitude of the source scale on both axes.
C6_EventLikePosition ==
    afterUpdate /\ reflectionWall.visible /\ gameMap.reflectMode = event =>
        LET dist == character.realY - call.ret * StepsPerTile
            offsets == gameMap.reflectWallYOff + character.reflectWallYOff
        IN  /\ reflectionWall.y * StepsPerTile
                 = YDen * (StepsPerTile * (sprite.y + tileHeight - character.jumpHeight + offsets)
                           - tileHeight * dist * 2)
            /\ reflectionWall.scaleY = sprite.scaleY * ScaleDen
            /\ reflectionWall.scaleX \in {sprite.scaleX * ScaleDen, 0 - sprite.scaleX * ScaleDen}

\* d = 4 with no jump and no offsets puts the reflection 336 pixels above
C6_Witness ==
    /\ afterUpdate /\ reflectionWall.visible /\ gameMap.reflectMode = event
    /\ character.realY - call.ret * StepsPerTile = 4 * StepsPerTile
    /\ character.jumpHeight = 0
    /\ gameMap.reflectWallYOff + character.reflectWallYOff = 0
    /\ reflectionWall.y = (sprite.y - 336) * YDen

\* C7 as stated: the floor reflection is visible iff the map allows floor
\* reflections, the character allows them, the character is not on a
\* no-reflect region, and an opacity override of any value 0..255 is present
\* or the character is not transparent.
C7_FloorVisibleAnyOverride ==
    afterUpdate =>
        (reflectionFloor.visible <=>
            /\ gameMap.reflectFloor
            /\ character.reflectFloor
            /\ ~onRegion(noReflectRegions)
            /\ (character.reflectFloorOpacity # Undefined \/ ~character.transparent))

\* C7 amended: as stated, except that the override counts only when it is not
\* 0: with an override of 0 the floor reflection is not visible, and with no
\* override it is visible only when the character is not transparent.
C7_FloorVisibleNonZeroOverride ==
    afterUpdate =>
        (reflectionFloor.visible <=>
            /\ gameMap.reflectFloor
            /\ character.reflectFloor
            /\ ~onRegion(noReflectRegions)
            /\ \/ character.reflectFloorOpacity \notin {Undefined, 0}
               \/ character.reflectFloorOpacity = Undefined /\ ~character.transparent)

\* a transparent character whose override keeps the floor reflection visible
C7_Witness ==
    /\ afterUpdate /\ reflectionFloor.visible
    /\ character.transparent /\ character.reflectFloorOpacity = 255

\* C8: a character standing on a no-reflect region has neither a floor nor a
\* wall reflection, whatever the flags and overrides.
C8_NoReflectRegionHidesBoth ==
    afterUpdate /\ onRegion(noReflectRegions)
        => ~reflectionFloor.visible /\ ~reflectionWall.visible

\* everything allows the reflections, only the region forbids them
C8_Witness ==
    /\ afterUpdate /\ onRegion(noReflectRegions)
    /\ gameMap.reflectFloor /\ gameMap.reflectWall
    /\ character.reflectFloor /\ character.reflectWall
    /\ character.reflectFloorOpacity = 255 /\ character.reflectWallOpacity = 255
    /\ WallRows(character.x) # {}
    /\ ~reflectionFloor.visible /\ ~reflectionWall.visible

\* C9: a kind of reflection the map disables is not visible whatever the
\* character's flag, and one the character disables is not visible whatever
\* the map's flag.
C9_DisableWins ==
    afterUpdate =>
        /\ (~gameMap.reflectFloor \/ ~character.reflectFloor => ~reflectionFloor.visible)
        /\ (~gameMap.reflectWall \/ ~character.reflectWall => ~reflectionWall.visible)

\* the map forbids wall reflections for a character that asks for one below a wall
C9_Witness ==
    /\ afterUpdate /\ ~gameMap.reflectWall /\ character.reflectWall
    /\ character.reflectWallOpacity = 255 /\ onRegion({0})
    /\ NearestWallAbove(character.x, character.y) >= 0
    /\ ~reflectionWall.visible

\* C10: for a character in a column of the current map without wall tiles the
\* query returns -1 and the wall reflection is not visible, while the floor
\* reflection is visible exactly as its own conditions say.
C10_NoWallNoWallReflection ==
    afterUpdate /\ WallRows(character.x) = {} =>
        /\ (call.queried => call.ret = -1)
        /\ ~reflectionWall.visible
        /\ (reflectionFloor.visible <=> floorVisible)

\* C11: for each kind of reflection and each axis, the pixel offset applied to
\* the reflection is the character's offset plus the map's offset of that
\* kind, whichever of the two was set first: the setters write separate
\* fields and every order of calls reaches the same sum.
C11_OffsetsAdd ==
    afterUpdate =>
        LET dist == character.realY - call.ret * StepsPerTile
            wallBase == IF gameMap.reflectMode = perspective
                        THEN sprite.y * YDen - (tileHeight + 1) * dist * (YDen \div StepsPerTile)
                        ELSE (sprite.y + tileHeight) * YDen
                             - tileHeight * dist * 2 * (YDen \div StepsPerTile)
        IN  /\ reflectionFloor.visible /\ reflectionWall.visible
            /\ reflectionFloor.x
                 = sprite.x + character.reflectFloorXOff + gameMap.reflectFloorXOff
            /\ reflectionFloor.y
                 = (sprite.y + character.reflectFloorYOff + gameMap.reflectFloorYOff) * YDen
            /\ reflectionWall.x
                 = sprite.x + character.reflectWallXOff + gameMap.reflectWallXOff
            /\ reflectionWall.y
                 = wallBase + (character.reflectWallYOff + gameMap.reflectWallYOff) * YDen

\* character offsets -4, 6 on a map with offsets 1, 1 shift the floor reflection by -3, 7
C11_Witness ==
    /\ afterUpdate
    /\ character.reflectFloorXOff = -4 /\ character.reflectFloorYOff = 6
    /\ gameMap.reflectFloorXOff = 1 /\ gameMap.reflectFloorYOff = 1
    /\ reflectionFloor.x = sprite.x - 3
    /\ reflectionFloor.y = (sprite.y + 7) * YDen

\* C12: in both wall modes, a character more than maxWallDistance tiles below
\* its nearest wall tile has no drawn wall reflection on that frame: the
\* reflection is not visible or its scale is zero.
C12_BeyondMaxDistanceNotDrawn ==
    afterUpdate /\ NearestWallAbove(character.x, character.y) >= 0
                /\ character.realY - NearestWallAbove(character.x, character.y) * StepsPerTile
                     > StepsPerTile * maxWallDistance
        => \/ ~reflectionWall.visible
           \/ reflectionWall.scaleX = 0 /\ reflectionWall.scaleY = 0

\* C13: on every frame on which the wall reflection is visible, the distance
\* to the wall, the character's precise row minus the wall row found from its
\* tile coordinates, is >= 0, also while the character is between two rows; a
\* frame on which the distance would be negative leaves it not visible.
C13_VisibleDistanceNotNegative ==
    afterUpdate /\ reflectionWall.visible
        => character.realY - call.ret * StepsPerTile >= 0

\* C14: map settings set by overrideMapSettings (floor allowed, wall allowed,
\* mode) stay as they are through every later frame, map refresh and command,
\* in either wall mode, until Game_Map.setup runs, after which they are the
\* values derived from the entered map's notes and the plugin defaults.
C14_OverridePersists ==
    [][/\ call'.op \notin {"setup", "overrideMapSettings"}
           => /\ gameMap'.reflectFloor = gameMap.reflectFloor
              /\ gameMap'.reflectWall = gameMap.reflectWall
              /\ gameMap'.reflectMode = gameMap.reflectMode
       /\ call'.op = "setup"
           => gameMap' = setupMapReflectOptions(mapData[mapId'].meta)]_vars

\* C15: after a game is saved and loaded, every reflection setting of the
\* actor (flags, opacities, offsets, graphic name and index) equals its value
\* at save time, also for an actor without a reflection graphic of its own.
C15_ActorSettingsSurviveLoad ==
    [][call'.op = "extractSaveContents" => Settings(character') = Settings(character)]_vars

\* C16: reflection settings of an event changed by a command stay in effect
\* on every later frame, across map refreshes and event page changes; only a
\* reload of the map resets them, to the event's note tags and event defaults.
C16_EventSettingsPersist ==
    [][/\ call'.op \in {"updateOther", "refresh map", "setupPage"}
           => Settings(character') = Settings(character)
       /\ call'.op = "setupEvents"
           => Settings(character') = Settings(parseMetaValues(character, character.notes,
                                                              eventDefault))]_vars

\* C17: in the Change Event / Actor Reflection commands every argument left
\* 'unchanged' or blank leaves the corresponding setting of the target as it
\* was before the command; in particular blank wall x and y offsets leave the
\* wall offsets alone, whatever the floor offsets are.
C17_BlankArgsKeepSettings ==
    [][call'.op \in {"changeActorReflect", "changeEventReflect"} =>
          LET a == call'.args
              old == Settings(character)
              new == Settings(character')
          IN  /\ a.character = "" => new.reflectName = old.reflectName
              /\ a.index = Blank => new.reflectIndex = old.reflectIndex
              /\ a.reflectFloor = "unchanged" => new.reflectFloor = old.reflectFloor
              /\ a.reflectWall = "unchanged" => new.reflectWall = old.reflectWall
              /\ a.reflectFloorOpacity = Blank
                    => new.reflectFloorOpacity = old.reflectFloorOpacity
              /\ a.reflectWallOpacity = Blank
                    => new.reflectWallOpacity = old.reflectWallOpacity
              /\ a.reflectFloorXOffset = Blank => new.reflectFloorXOff = old.reflectFloorXOff
              /\ a.reflectFloorYOffset = Blank => new.reflectFloorYOff = old.reflectFloorYOff
              /\ a.reflectWallXOffset = Blank => new.reflectWallXOff = old.reflectWallXOff
              /\ a.reflectWallYOffset = Blank => new.reflectWallYOff = old.reflectWallYOff]_vars

\* the floor half and the wall half of a character's settings
floorSetting(c) == [visible |-> c.reflectFloor, opacity |-> c.reflectFloorOpacity,
                    x |-> c.reflectFloorXOff, y |-> c.reflectFloorYOff]
wallSetting(c) == [visible |-> c.reflectWall, opacity |-> c.reflectWallOpacity,
                   x |-> c.reflectWallXOff, y |-> c.reflectWallYOff]

\* the arguments name the one character there is
namesTarget(a) == a.charType = character.kind /\ a.id \in {0, character.id}

\* the documented valid forms of the three commands that take a reflect_type
validTypedCommand(c) ==
    /\ c.op \in {"setReflectVisible", "setReflectOpacity", "setReflectOffset"}
    /\ namesTarget(c.args)
    /\ c.args.reflectType \in {"floor", "wall", "all"}
    /\ c.op = "setReflectVisible" => c.args.n = 4 /\ c.args.flag \in {"true", "false"}
    /\ c.op = "setReflectOpacity" =>
          \/ c.args.n = 3
          \/ c.args.n = 4 /\ c.args.number \in (0..255) \cup {Undefined}
    /\ c.op = "setReflectOffset" =>
          c.args.n = 5 /\ c.args.axis \in {"x", "y", "xy"} /\ c.args.number # NotANumber

\* the half of the settings a valid command asks for, given the half before it
requested(c, half) ==
    CASE c.op = "setReflectVisible" -> [half EXCEPT !.visible = c.args.flag = "true"]
      [] c.op = "setReflectOpacity" ->
           [half EXCEPT !.opacity = IF c.args.n > 3 THEN c.args.number ELSE Undefined]
      [] c.op = "setReflectOffset" ->
           [half EXCEPT !.x = IF c.args.axis \in {"x", "xy"} THEN c.args.number ELSE @,
                        !.y = IF c.args.axis \in {"y", "xy"} THEN c.args.number ELSE @]
      [] OTHER -> half

\* C18: setReflectVisible, setReflectOpacity and setReflectOffset with
\* otherwise valid arguments accept 'floor', 'wall' and 'all': 'floor' sets
\* only the floor setting of the target, 'wall' only the wall setting, 'all'
\* both.
C18_ReflectTypeSelectsSetting ==
    [][validTypedCommand(call') =>
         /\ floorSetting(character') =
              IF call'.args.reflectType \in {"floor", "all"}
              THEN requested(call', floorSetting(character))
              ELSE floorSetting(character)
         /\ wallSetting(character') =
              IF call'.args.reflectType \in {"wall", "all"}
              THEN requested(call', wallSetting(character))
              ELSE wallSetting(character)]_vars

\* the same for 'floor' and 'all' alone
FloorAndAllSelectSetting ==
    [][validTypedCommand(call') /\ call'.args.reflectType # "wall" =>
         /\ floorSetting(character') = requested(call', floorSetting(character))
         /\ wallSetting(character') =
              IF call'.args.reflectType = "all"
              THEN requested(call', wallSetting(character))
              ELSE wallSetting(character)]_vars

\* C19: the trailing argument of setReflectImage and setReflectIndex is
\* optional: with only char_type and id, setReflectImage resets the target's
\* reflection graphic name to the empty, inherit, value and setReflectIndex
\* resets its reflection index to the inherit value; the other settings stay.
C19_TrailingArgumentOptional ==
    [][/\ call'.op \in {"setReflectImage", "setReflectIndex"}
       /\ call'.args.n = 2
       /\ namesTarget(call'.args)
       => Settings(character') =
            IF call'.op = "setReflectImage"
            THEN [Settings(character) EXCEPT !.reflectName = ""]
            ELSE [Settings(character) EXCEPT !.reflectIndex = -1]]_vars

\* how many arguments each command is documented to take
documentedArgCount(op) ==
    CASE op = "setReflectVisible" -> 4..4
      [] op = "setReflectOpacity" -> 3..4
      [] op = "setReflectOffset" -> 5..5
      [] OTHER -> 2..3

\* invalid input as the specification lists it: a wrong number of arguments,
\* a target kind that is not one, an id that is not a number or that no actor
\* or event has, an opacity that is not a number of 0..255
invalidInput(c) ==
    \/ c.args.n \notin documentedArgCount(c.op)
    \/ ~namesTarget(c.args)
    \/ /\ c.op = "setReflectOpacity"
       /\ c.args.n = 4
       /\ c.args.number \notin (0..255) \cup {Undefined}

\* invalid input other than an opacity out of range
invalidInputButOpacity(c) ==
    c.args.n \notin documentedArgCount(c.op) \/ ~namesTarget(c.args)

MvCommands == {"setReflectVisible", "setReflectOpacity", "setReflectOffset",
               "setReflectImage", "setReflectIndex"}

opacityInRange(c) ==
    /\ c.reflectFloorOpacity \in (0..255) \cup {Undefined}
    /\ c.reflectWallOpacity \in (0..255) \cup {Undefined}

\* C20: a command that carries invalid input (a wrong number of arguments,
\* an id that is not a number, an opacity outside 0..255) or that names an
\* actor or event that does not exist changes no reflection setting, and so
\* every stored opacity override is absent or an integer of 0..255.
C20_InvalidInputChangesNothing ==
    [][/\ call'.op \in MvCommands /\ invalidInput(call')
          => Settings(character') = Settings(character) /\ gameMap' = gameMap
       /\ opacityInRange(character')]_vars

\* the same without the opacity: a wrong number of arguments or a target
\* that does not exist changes nothing
MissingTargetChangesNothing ==
    [][call'.op \in MvCommands /\ invalidInputButOpacity(call')
          => Settings(character') = Settings(character) /\ gameMap' = gameMap]_vars

\* the script call overrideMapSettings with a mode string that is not
\* recognised leaves the settings of a map in event mode as they are
UnknownModeChangesNothing ==
    mapId \in MapIds /\ gameMap.reflectMode = event =>
       overrideMapSettingsValue(gameMap, mapData[mapId].meta,
                                "unchanged", "unchanged", "isometric") = gameMap

\* the fields a setter writes
fieldsOf(setter) ==
    CASE setter = "reflectDisable" -> {"reflectFloorToggle", "reflectWallToggle"}
      [] setter = "reflectEnable" -> {"reflectFloorToggle", "reflectWallToggle"}
      [] OTHER -> {setter}

settersState == [character |-> character, gameMap |-> gameMap]

idempotent(s) ==
    callSetter(s, callSetter(s, settersState)) = callSetter(s, settersState)

commute(s, t) ==
    callSetter(s, callSetter(t, settersState)) = callSetter(t, callSetter(s, settersState))

\* C21: every reflection setter of a character or of the map is idempotent,
\* a call that leaves its argument out included, and two setters on
\* different fields commute.
C21_SettersIdempotentAndCommute ==
    /\ \A s \in SetterCalls : idempotent(s)
    /\ \A s, t \in SetterCalls :
          fieldsOf(s.setter) \cap fieldsOf(t.setter) = {} => commute(s, t)

\* the same for the calls that give their argument
SettersWithArgumentIdempotent ==
    \A s \in SetterCalls : ~s.omitted => idempotent(s)

\* the same for every call but the two toggles without argument
SettersButTogglesIdempotent ==
    \A s \in SetterCalls :
       ~(s.omitted /\ s.setter \in {"reflectFloorToggle", "reflectWallToggle"})
          => idempotent(s)

SettersOnDifferentFieldsCommute ==
    \A s, t \in SetterCalls :
       fieldsOf(s.setter) \cap fieldsOf(t.setter) = {} => commute(s, t)

\* the index the reflection is to be drawn with: the reflection index that
\* was set when it is not negative, else the character's own
wantedIndex(c) == IF c.reflectIndex < 0 THEN c.characterIndex ELSE c.reflectIndex

afterSpriteUpdate(c) == c.op \in {"updateOther", "firstUpdateOther"}

\* C22: the reflection index round-trips: for every index >= 0, 0 being the
\* first character of the sheet, reflectIndex() returns the index given to
\* setReflectImage and the reflection sprites are drawn with it; only a
\* negative index inherits the character's own.
C22_IndexRoundTrips ==
    [][/\ call'.op = "setReflectImage" /\ call'.index >= 0
          => reflectIndex(character') = call'.index
       /\ afterSpriteUpdate(call')
          => /\ reflectionFloor'.characterIndex = wantedIndex(character')
             /\ reflectionWall'.characterIndex = wantedIndex(character')]_vars

\* the same for every index but 0
IndexButZeroRoundTrips ==
    [][/\ call'.op = "setReflectImage" /\ call'.index > 0
          => reflectIndex(character') = call'.index
       /\ afterSpriteUpdate(call') /\ character'.reflectIndex # 0
          => /\ reflectionFloor'.characterIndex = wantedIndex(character')
             /\ reflectionWall'.characterIndex = wantedIndex(character')]_vars

\* the mode variable that is bound in the plugin manager, 0 for none
boundVariable == plugin.parameters.wallReflectVar

\* the mode the bound variable holds, when it holds one
boundMode == IF boundVariable = 0 THEN Undefined
             ELSE wallModes(gameVariables[boundVariable])

\* C23: getWallReflectMode is always one of the two modes: the mode in the
\* bound game variable when one is bound and holds a valid mode, else the
\* default Wall Reflection Mode; setWallReflectMode changes nothing when the
\* variable id is 0.
C23_WallModeFromVariable ==
    [][/\ call'.op = "getWallReflectMode"
          => /\ call'.ret \in {perspective, event}
             /\ call'.ret = IF boundMode # Undefined THEN boundMode
                            ELSE wallModes(plugin.parameters.wallReflectType)
       /\ call'.op = "setWallReflectMode" /\ boundVariable = 0
          => gameVariables' = gameVariables]_vars

\* what does hold: the mode is always the default Wall Reflection Mode
WallModeIsDefault ==
    [][call'.op = "getWallReflectMode"
          => call'.ret = wallModes(plugin.parameters.wallReflectType)]_vars

\* the spriteset has just been updated with the z-fight fix on, in perspective mode
afterZFix ==
    /\ call.op = "Spriteset_Map.update"
    /\ plugin.useZFightFix
    /\ gameMap.reflectMode = perspective

\* any two wall reflections have different z values, which go down from the base
zFromBase(base) ==
    /\ \A i \in DOMAIN characterSprites : characterSprites[i].hasWall
    /\ {characterSprites[i].z : i \in DOMAIN characterSprites}
          = {base - k : k \in 0 .. Len(characterSprites) - 1}

C24_WitnessTie ==
    /\ afterZFix
    /\ characterSprites[1].realY = characterSprites[2].realY
    /\ characterSprites[1].z # characterSprites[2].z

\* C25: a visible floor reflection has x = source x + map and character floor
\* x offsets; y = source y + pattern height * vertical scale when the pivot
\* is bottom-anchored + jumpHeight * 1.25 + map and character floor y
\* offsets; rotation = source rotation + 180 degrees; scale.x = -source
\* scale.x; scale.y = source scale.y; opacity = the floor opacity override
\* when present, else the source sprite's opacity.
C25_FloorTransform ==
    afterUpdate /\ reflectionFloor.visible =>
       LET lift == IF sprite.pivotY # 0 THEN sprite.patternHeight * sprite.scaleY ELSE 0
           offX == gameMap.reflectFloorXOff + character.reflectFloorXOff
           offY == gameMap.reflectFloorYOff + character.reflectFloorYOff
       IN  /\ reflectionFloor.x = sprite.x + offX
           /\ 4 * reflectionFloor.y
                 = YDen * (4 * (sprite.y + lift + offY) + 5 * character.jumpHeight)
           /\ reflectionFloor.rotation = sprite.rotation + 2
           /\ reflectionFloor.scaleX = (0 - sprite.scaleX) * ScaleDen
           /\ reflectionFloor.scaleY = sprite.scaleY * ScaleDen
           /\ reflectionFloor.opacity = IF character.reflectFloorOpacity # Undefined
                                        THEN character.reflectFloorOpacity
                                        ELSE sprite.opacity

\* a jump of 10 under a bottom-anchored sprite of vertical scale 3, offsets
\* -3 and 7: the reflection is 144 + 12.5 + 7 pixels below the sprite
C25_Witness ==
    /\ afterUpdate /\ reflectionFloor.visible
    /\ sprite.pivotY # 0 /\ sprite.scaleY = 3 /\ sprite.scaleX = 2
    /\ sprite.rotation = 1 /\ sprite.opacity = 100
    /\ character.jumpHeight = 10
    /\ character.reflectFloorOpacity = Undefined
    /\ gameMap.reflectFloorXOff + character.reflectFloorXOff = -3
    /\ gameMap.reflectFloorYOff + character.reflectFloorYOff = 7
    /\ reflectionFloor.x = sprite.x - 3
    /\ 2 * reflectionFloor.y = YDen * (2 * (sprite.y + 144 + 7) + 25)
    /\ reflectionFloor.rotation = 3
    /\ reflectionFloor.opacity = 100

\* C26: a refresh request (refreshReflectMap / refreshReflectWallCache) does
\* not rebuild the wall cache at once; it marks the cache stale and the
\* next wall query rebuilds it, whatever the number of requests before it.
C26_RefreshIsLazy ==
    [][/\ call'.op = "refresh" => reflectWallPositions' = reflectWallPositions
       /\ call.op = "refresh" /\ call'.op = "getWallY" => call'.rebuilt]_vars

\* what the request does: the cache is the current map's at once, and a
\* query after it rebuilds only if the map id changed since the last query
RefreshIsEager ==
    [][/\ call'.op = "refresh" => CacheMatchesMap'
       /\ call.op = "refresh" /\ call'.op = "getWallY"
             => (call'.rebuilt <=> currMapId # mapId)]_vars

\* C27: in perspective mode the wall reflection's y is sourceY - tileHeight
\* * distance - distance, less the jump height and the pivot offset, both
\* multiplied by the scale factor s of the sprite's axes (jumpHeight * s,
\* pivot.y * s), plus the map and character wall y offsets.
C27_CorrectionsScaledAlike ==
    afterUpdate /\ reflectionWall.visible /\ gameMap.reflectMode = perspective =>
       LET dist == character.realY - call.ret * StepsPerTile
           scale == perspectiveScale(dist)
           offY == gameMap.reflectWallYOff + character.reflectWallYOff
       IN  reflectionWall.y
              = (sprite.y + offY) * YDen
                - (tileHeight + 1) * dist * (YDen \div StepsPerTile)
                - character.jumpHeight * scale * 20
                - sprite.pivotY * scale * 20

\* what the y is: the jump height is multiplied by s / 10 and the pivot
\* offset by 1 - s
JumpTenthPivotComplement ==
    afterUpdate /\ reflectionWall.visible /\ gameMap.reflectMode = perspective =>
       LET dist == character.realY - call.ret * StepsPerTile
           scale == perspectiveScale(dist)
           offY == gameMap.reflectWallYOff + character.reflectWallYOff
       IN  reflectionWall.y
              = (sprite.y + offY) * YDen
                - (tileHeight + 1) * dist * (YDen \div StepsPerTile)
                - character.jumpHeight * scale * 2
                - sprite.pivotY * (ScaleDen - scale) * 20

\* C28: computing a reflection's frame leaves the source character as it
\* was: after handleReflectFrame / setReflectFrame returns, for the floor or
\* the wall sprite, with or without the Galv wrappers, the character's
\* graphic name, graphic index, direction, _cframes and _diagDir are what
\* they were, although the wall sprite's frame was computed with the
\* reversed direction and the reflection's own graphic name and index.
C28_FrameLeavesCharacter ==
    [][call'.op = "handleReflectFrame" =>
          /\ character' = character
          /\ call'.frame.bitmap # "tileset" =>
                /\ call'.frame.characterName
                     = (IF call'.isReflectionWall THEN reflectionWall
                        ELSE reflectionFloor).characterName
                /\ call'.frame.characterIndex
                     = (IF call'.isReflectionWall THEN reflectionWall
                        ELSE reflectionFloor).characterIndex
                /\ call'.frame.direction
                     = IF call'.isReflectionWall THEN 10 - character.direction
                       ELSE character.direction]_vars

\* the frame of the wall reflection of an event that faces up, drawn from
\* its reflection graphic with the event facing down, and the event as before
C28_Witness ==
    /\ call.op = "handleReflectFrame" /\ call.isReflectionWall
    /\ "Galv_DiagonalMovement" \in plugin.imported
    /\ "Galv_CharacterFrames" \in plugin.imported
    /\ character.direction = 8 /\ call.frame.direction = 2
    /\ character.diagDir = 9 /\ call.frame.diagDir = 1
    /\ character.characterName = "People2" /\ call.frame.characterName = "Mirror"
    /\ character.cframes = 3 /\ call.frame.cframes = 4
    /\ character.characterIndex = 5 /\ call.frame.characterIndex = 1

\* the graphic the reflection is to be drawn with
wantedName(c) == IF c.reflectName = "" THEN c.characterName ELSE c.reflectName

usesGraphic(r, c) ==
    r.characterName = wantedName(c) /\ r.characterIndex = wantedIndex(c)

\* C29: every setImage and setReflectImage, and the creation of the
\* reflection sprites, requests a refresh; the next updateReflectionSprite
\* refreshes the graphic of both reflection sprites and clears the flag; an
\* update that finds the flag clear refreshes nothing. So after any changes
\* and one sprite update both reflection sprites use the character's current
\* reflection name and index, or the character's own when inherited, and
\* the flag is clear.
C29_RefreshProtocol ==
    [][/\ call'.op \in {"setImage", "setReflectImage"}
          => character'.reflectRefreshRequested
       /\ afterSpriteUpdate(call')
          => /\ ~character'.reflectRefreshRequested
             /\ usesGraphic(reflectionFloor', character')
             /\ usesGraphic(reflectionWall', character')
       /\ call'.op = "updateOther" /\ ~character.reflectRefreshRequested
          => /\ reflectionFloor'.characterName = reflectionFloor.characterName
             /\ reflectionFloor'.characterIndex = reflectionFloor.characterIndex
             /\ reflectionWall'.characterName = reflectionWall.characterName
             /\ reflectionWall'.characterIndex = reflectionWall.characterIndex]_vars

\* the same when the reflection index is not 0
RefreshProtocolButIndexZero ==
    [][/\ call'.op \in {"setImage", "setReflectImage"}
          => character'.reflectRefreshRequested
       /\ afterSpriteUpdate(call') /\ character'.reflectIndex # 0
          => /\ ~character'.reflectRefreshRequested
             /\ usesGraphic(reflectionFloor', character')
             /\ usesGraphic(reflectionWall', character')
       /\ call'.op = "updateOther" /\ ~character.reflectRefreshRequested
          => /\ reflectionFloor'.characterName = reflectionFloor.characterName
             /\ reflectionFloor'.characterIndex = reflectionFloor.characterIndex
             /\ reflectionWall'.characterName = reflectionWall.characterName
             /\ reflectionWall'.characterIndex = reflectionWall.characterIndex]_vars

\* the player or a follower that stands for an actor has just been updated
actorCharacterUpdated(c) ==
    c.op \in {"Game_Player.update", "Game_Follower.update"} /\ actor.id # 0

\* C30: after every update of the player, the party not empty, or of a
\* follower that stands for an actor, every reflection setting of the map
\* character (graphic name, index, floor and wall flags, floor and wall
\* opacity, the four offsets) equals its actor's, so that a setting written
\* to the character itself is overwritten at its next update; a refresh of
\* the graphic is requested only when the name or the index differed.
C30_CharacterFollowsActor ==
    [][actorCharacterUpdated(call') =>
          /\ Settings(character') = Settings(actor)
          /\ character'.reflectRefreshRequested /\ ~character.reflectRefreshRequested
                => \/ reflectName(character) # reflectName(actor)
                   \/ reflectIndex(character) # reflectIndex(actor)]_vars

\* a wall flag and an opacity written to the player are overwritten, with
\* no refresh request, the graphic being the actor's already
C30_Witness ==
    /\ call.op = "Game_Player.update" /\ actor.id # 0
    /\ actor.reflectWall /\ character.reflectWall
    /\ actor.reflectWallYOff = 4 /\ character.reflectWallYOff = 4
    /\ reflectName(character) = "Mirror" /\ reflectIndex(character) = 4
    /\ ~character.reflectRefreshRequested

====
